---------------------------- MODULE Spec2Model ----------------------------
(***************************************************************************)
(* ECDHE key agreement of s2n (crypto/s2n_ecc.c) and the TLS 1.3 client    *)
(* key_share extension (tls/extensions/s2n_client_key_share.c).            *)
(*                                                                         *)
(* Bytes are integers 0..255, a blob is a sequence of bytes, a stuffer is  *)
(* a record [data, rd, cap]: the bytes written so far (the write cursor is *)
(* Len(data)), the read cursor and the capacity of the backing blob.       *)
(* EC_KEY objects live in a heap (a sequence of records); a handle is an   *)
(* index into the heap and 0 is NULL.  A curve pointer is an index into    *)
(* s2n_ecc_supported_curves and 0 is NULL.                                 *)
(*                                                                         *)
(* libcrypto is abstracted: the group of curve c is the additive group of  *)
(* integers modulo GroupOrder(c), a public point is d * Generator(c), its  *)
(* uncompressed encoding is the tag 4 followed by two coordinates of the   *)
(* curve's field length, and ECDH multiplies a scalar with a point.        *)
(***************************************************************************)
EXTENDS Integers, Sequences, FiniteSets, TLC

VARIABLES pc, ext_size, conns, params, heap, wire, ret, loc, inp

vars == <<pc, ext_size, conns, params, heap, wire, ret, loc, inp>>

(***************************************************************************)
(* Bounds of the model.                                                    *)
(***************************************************************************)
\* private scalars a key generation may draw: 1..MaxScalar
MaxScalar == 2
\* longest candidate id list handed to s2n_ecc_find_supported_curve, in bytes
MaxIdBytes == 5
\* most key shares in one received key_share extension
MaxShares == 2

(***************************************************************************)
(* Program constants.                                                      *)
(***************************************************************************)
TLS_EC_CURVE_TYPE_NAMED == 3
S2N_ECC_SUPPORTED_CURVES_COUNT == 2
S2N_SIZE_OF_EXTENSION_TYPE == 2
S2N_SIZE_OF_EXTENSION_DATA_SIZE == 2
S2N_SIZE_OF_CLIENT_SHARES_SIZE == 2
S2N_SIZE_OF_NAMED_GROUP == 2
S2N_SIZE_OF_KEY_SHARE_SIZE == 2
\* tls/s2n_tls_parameters.h: the extension type of key_share
TLS_EXTENSION_KEY_SHARE == 51
\* the IANA ids of secp256r1 and secp384r1
TLS_EC_CURVE_SECP_256_R1 == 23
TLS_EC_CURVE_SECP_384_R1 == 24

s2n_ecc_supported_curves ==
    << [iana_id |-> TLS_EC_CURVE_SECP_256_R1, name |-> "secp256r1", share_size |-> (32 * 2) + 1],
       [iana_id |-> TLS_EC_CURVE_SECP_384_R1, name |-> "secp384r1", share_size |-> (48 * 2) + 1] >>

Curves == 1..S2N_ECC_SUPPORTED_CURVES_COUNT

S2N_ERR_BAD_MESSAGE == "S2N_ERR_BAD_MESSAGE"
S2N_ERR_ECDHE_UNSUPPORTED_CURVE == "S2N_ERR_ECDHE_UNSUPPORTED_CURVE"
S2N_ERR_ECDHE_GEN_KEY == "S2N_ERR_ECDHE_GEN_KEY"
S2N_ERR_ECDHE_SHARED_SECRET == "S2N_ERR_ECDHE_SHARED_SECRET"
S2N_ERR_ECDHE_SERIALIZING == "S2N_ERR_ECDHE_SERIALIZING"
S2N_ERR_STUFFER_OUT_OF_DATA == "S2N_ERR_STUFFER_OUT_OF_DATA"
S2N_ERR_STUFFER_IS_FULL == "S2N_ERR_STUFFER_IS_FULL"
S2N_ERR_NULL == "S2N_ERR_NULL"
\* what gte_check and the other checks of utils/s2n_safety.h raise
S2N_ERR_SAFETY == "S2N_ERR_SAFETY"
S2N_ERR_OK == "S2N_ERR_OK"

(***************************************************************************)
(* Bytes.                                                                  *)
(***************************************************************************)
\* a uint16 in network order
U16Bytes(v) == << (v \div 256) % 256, v % 256 >>

\* v (below 256) as a big-endian number padded to len bytes
PadBE(v, len) == [i \in 1..len |-> IF i = len THEN v ELSE 0]

SetMin(S) == CHOOSE x \in S : \A y \in S : x <= y

\* the element of a one-element set
TheOne(S) == CHOOSE x \in S : TRUE

\* a call of F as C makes it: the arguments are evaluated once, before the
\* call, and F receives their values
Call1(F(_), a) == TheOne({F(x) : x \in {a}})

Call2(F(_, _), a, b) == TheOne({F(x, y) : x \in {a}, y \in {b}})

Call3(F(_, _, _), a, b, c) == TheOne({F(x, y, z) : x \in {a}, y \in {b}, z \in {c}})

Call5(F(_, _, _, _, _), a, b, c, d, e) ==
    TheOne({F(v, w, x, y, z) : v \in {a}, w \in {b}, x \in {c}, y \in {d}, z \in {e}})

Call6(F(_, _, _, _, _, _), a, b, c, d, e, f) ==
    TheOne({F(u, v, w, x, y, z) : u \in {a}, v \in {b}, w \in {c}, x \in {d}, y \in {e}, z \in {f}})

\* bytes first..last of b (1-based), empty when last < first
Slice(b, first, last) == SubSeq(b, first, last)

(***************************************************************************)
(* The byte cursor (stuffer/s2n_stuffer.c), not growable.                  *)
(***************************************************************************)
s2n_stuffer_init(cap) == [data |-> << >>, rd |-> 0, cap |-> cap]

s2n_stuffer_data_available(s) == Len(s.data) - s.rd

s2n_stuffer_space_remaining(s) == s.cap - Len(s.data)

s2n_stuffer_reread(s) == [s EXCEPT !.rd = 0]

\* read n bytes: [ok, s, bytes, off]; off is where the bytes start in the blob
s2n_stuffer_raw_read(s, n) ==
    IF s2n_stuffer_data_available(s) < n
    THEN [ok |-> FALSE, err |-> S2N_ERR_STUFFER_OUT_OF_DATA, s |-> s, bytes |-> << >>, off |-> s.rd]
    ELSE [ok |-> TRUE, err |-> S2N_ERR_OK, s |-> [s EXCEPT !.rd = s.rd + n],
          bytes |-> Slice(s.data, s.rd + 1, s.rd + n), off |-> s.rd]

s2n_stuffer_skip_read(s, n) == s2n_stuffer_raw_read(s, n)

s2n_stuffer_read_uint8(s) ==
    LET r == s2n_stuffer_raw_read(s, 1)
    IN  [ok |-> r.ok, err |-> r.err, s |-> r.s, v |-> IF r.ok THEN r.bytes[1] ELSE 0]

s2n_stuffer_read_uint16(s) ==
    LET r == s2n_stuffer_raw_read(s, 2)
    IN  [ok |-> r.ok, err |-> r.err, s |-> r.s,
         v |-> IF r.ok THEN r.bytes[1] * 256 + r.bytes[2] ELSE 0]

\* append bytes: [ok, s, off]; off is where the bytes start in the blob
s2n_stuffer_write_bytes(s, bytes) ==
    IF s2n_stuffer_space_remaining(s) < Len(bytes)
    THEN [ok |-> FALSE, err |-> S2N_ERR_STUFFER_IS_FULL, s |-> s, off |-> Len(s.data)]
    ELSE [ok |-> TRUE, err |-> S2N_ERR_OK, s |-> [s EXCEPT !.data = s.data \o bytes],
          off |-> Len(s.data)]

s2n_stuffer_write_uint8(s, v) == s2n_stuffer_write_bytes(s, << v % 256 >>)

s2n_stuffer_write_uint16(s, v) == s2n_stuffer_write_bytes(s, U16Bytes(v))

(***************************************************************************)
(* libcrypto, abstracted.                                                  *)
(***************************************************************************)
\* what a NULL dereference does to the process (the signal that kills it); a
\* call that ends this way has no return value and carries SIGSEGV in place of
\* rc and err
SIGSEGV == "SIGSEGV"

\* bytes of one coordinate of curve c
FieldBytes(c) == (s2n_ecc_supported_curves[c].share_size - 1) \div 2

GroupOrder(c) == IF c = 1 THEN 251 ELSE 241

Generator(c) == IF c = 1 THEN 5 ELSE 7

\* an EC_POINT on curve c: group element e in 0..GroupOrder(c)-1, 0 being the
\* point at infinity.  Points are numbers, and 0 is the NULL pointer.
Point(c, e) == c * 256 + e

PointCurve(pt) == pt \div 256

PointElement(pt) == pt % 256

\* the first coordinate of element e # 0: a point and its inverse share it
CurveX(c, e) == IF 2 * e < GroupOrder(c) THEN e ELSE GroupOrder(c) - e

\* the second coordinate of element e # 0: that of the inverse is its negative
\* in the field (of odd size 251), which has the other parity
CurveY(c, e) == IF 2 * e < GroupOrder(c) THEN e + c ELSE 251 - (GroupOrder(c) - e + c)

\* the public point of private scalar d
PubOf(c, d) == Point(c, (d * Generator(c)) % GroupOrder(c))

EC_GROUP_get_degree(c) == 8 * FieldBytes(c)

\* the octets of the point with coordinates x and y, each of n bytes, in a
\* conversion form
PointOctets(form, x, y, n) ==
    CASE form = "uncompressed" -> << 4 >> \o PadBE(x, n) \o PadBE(y, n)
      [] form = "hybrid" -> << 6 + (y % 2) >> \o PadBE(x, n) \o PadBE(y, n)
      [] OTHER -> << 2 + (y % 2) >> \o PadBE(x, n)

\* POINT_CONVERSION_UNCOMPRESSED octets of point pt (not NULL) for group c (not
\* NULL): << >> when the point is not of that group
EC_POINT_point2oct(c, pt) ==
    IF PointCurve(pt) # c THEN << >>
    ELSE IF PointElement(pt) = 0 THEN << 0 >>
    ELSE PointOctets("uncompressed", CurveX(c, PointElement(pt)), CurveY(c, PointElement(pt)),
                     FieldBytes(c))

\* [ret, bytes]: what EC_POINT_point2oct returns and writes for the octets of
\* a point, a buffer buf (0 is NULL) and a length len.  A NULL buffer asks for
\* the length only; a buffer that is too small gets nothing and the return is
\* 0; a larger one gets the octets
EC_POINT_point2oct_buf(octets, buf, len) ==
    IF buf = 0 THEN [ret |-> Len(octets), bytes |-> << >>]
    ELSE IF len < Len(octets) \/ Len(octets) = 0 THEN [ret |-> 0, bytes |-> << >>]
    ELSE [ret |-> Len(octets), bytes |-> octets]

\* the elements of curve c (order n) that octets b are a form of
DecodedElements(c, b, n) ==
    {e \in {b[1 + FieldBytes(c)], n - b[1 + FieldBytes(c)]} \cap (1..(n - 1)) :
        \E form \in {"uncompressed", "hybrid", "compressed"} :
            b = PointOctets(form, CurveX(c, e), CurveY(c, e), FieldBytes(c))}

\* the point that octets decode to on curve c, 0 when libcrypto rejects them:
\* it takes the single octet 0 (infinity) and the uncompressed, hybrid and
\* compressed forms of a point of the curve
EC_POINT_oct2point(c, bytes) ==
    IF bytes = << 0 >> THEN Point(c, 0)
    ELSE IF Len(bytes) \notin {1 + FieldBytes(c), 1 + 2 * FieldBytes(c)} THEN 0
    ELSE TheOne({IF es = {} THEN 0 ELSE Point(c, TheOne(es)) :
                    es \in {DecodedElements(c, bytes, GroupOrder(c))}})

\* the failures libcrypto can report while s2n_ecc_parse_ecc_params_point
\* builds the peer's key: EC_KEY_new_by_curve_name returns NULL ("new_key"),
\* EC_KEY_set_public_key returns 0 ("set_public_key")
ParseFaults == {"new_key", "set_public_key"}

\* a new EC_KEY on curve c with neither scalar nor point: [heap, h]
EC_KEY_new_by_curve_name(hp, c) ==
    [heap |-> Append(hp, [nid |-> c, priv |-> 0, pub |-> 0, live |-> TRUE]),
     h |-> Len(hp) + 1]

EC_KEY_free(hp, h) == IF h = 0 THEN hp ELSE [hp EXCEPT ![h].live = FALSE]

\* the raw ECDH secret of own scalar (on curve c) and peer point: the first
\* coordinate of their product; << >> on failure, which is what a missing
\* scalar, a NULL point, a point of another curve or the point at infinity give
ECDH_compute_key(c, size, peer_public, priv, faults) ==
    IF priv = 0 \/ peer_public = 0 \/ "ecdh" \in faults THEN << >>
    ELSE IF PointCurve(peer_public) # c \/ PointElement(peer_public) = 0 THEN << >>
    ELSE PadBE(CurveX(c, (priv * PointElement(peer_public)) % GroupOrder(c)), size)

(***************************************************************************)
(* crypto/s2n_ecc.c                                                        *)
(***************************************************************************)
RECURSIVE find_inner(_, _, _, _)
\* the inner loop over the candidate ids, for registry curve i
find_inner(s, i, j, size) ==
    IF j >= size \div 2 THEN [kind |-> "next", s |-> s, err |-> S2N_ERR_OK]
    ELSE LET r == s2n_stuffer_read_uint16(s)
         IN  IF ~r.ok THEN [kind |-> "error", s |-> r.s, err |-> r.err]
             ELSE IF s2n_ecc_supported_curves[i].iana_id = r.v
                  THEN [kind |-> "found", s |-> r.s, err |-> S2N_ERR_OK]
                  ELSE find_inner(r.s, i, j + 1, size)

RECURSIVE find_outer(_, _, _, _)
\* the outer loop over the registry
find_outer(s, i, size, found) ==
    IF i > S2N_ECC_SUPPORTED_CURVES_COUNT
    THEN [rc |-> -1, err |-> S2N_ERR_ECDHE_UNSUPPORTED_CURVE, found |-> found]
    ELSE LET r == find_inner(s, i, 0, size)
         IN  CASE r.kind = "found" -> [rc |-> 0, err |-> S2N_ERR_OK, found |-> i]
               [] r.kind = "error" -> [rc |-> -1, err |-> r.err, found |-> found]
               [] OTHER -> find_outer(s2n_stuffer_reread(r.s), i + 1, size, found)

RECURSIVE find_peer_inner(_, _, _, _)
find_peer_inner(s, j, size, found) ==
    IF j >= size \div 2
    THEN [rc |-> -1, err |-> S2N_ERR_ECDHE_UNSUPPORTED_CURVE, found |-> found]
    ELSE LET r == s2n_stuffer_read_uint16(s)
         IN  IF ~r.ok THEN [rc |-> -1, err |-> r.err, found |-> found]
             ELSE IF \E i \in Curves : s2n_ecc_supported_curves[i].iana_id = r.v
                  THEN [rc |-> 0, err |-> S2N_ERR_OK,
                        found |-> CHOOSE i \in Curves : s2n_ecc_supported_curves[i].iana_id = r.v]
                  ELSE find_peer_inner(r.s, j + 1, size, found)

\* mutant: the loops swapped, so the first candidate that is a registry curve wins
find_supported_curve_peer_order(iana_ids, found) ==
    LET w == s2n_stuffer_write_bytes(s2n_stuffer_init(Len(iana_ids)), iana_ids)
    IN  find_peer_inner(w.s, 0, Len(iana_ids), found)

\* mutant: the inner loop runs one time too many (j <= size / 2)
find_supported_curve_off_by_one(iana_ids, found) ==
    LET w == s2n_stuffer_write_bytes(s2n_stuffer_init(Len(iana_ids)), iana_ids)
    IN  find_outer(w.s, 1, Len(iana_ids) + 2, found)

\* [rc, err, found]: found is *found after the call
s2n_ecc_find_supported_curve(iana_ids, found) ==
    LET w == s2n_stuffer_write_bytes(s2n_stuffer_init(Len(iana_ids)), iana_ids)
    IN  IF ~w.ok THEN [rc |-> -1, err |-> w.err, found |-> found]
        ELSE find_outer(w.s, 1, Len(iana_ids), found)


\* EC_KEY_get0_public_key, the private scalar and EC_KEY_get0_group of the key
\* behind handle h; libcrypto dereferences the handle, so NULL (0) kills the
\* process
KeyPub(hp, h) == IF h = 0 THEN SIGSEGV ELSE hp[h].pub

KeyPriv(hp, h) == IF h = 0 THEN SIGSEGV ELSE hp[h].priv

KeyGroup(hp, h) == IF h = 0 THEN SIGSEGV ELSE hp[h].nid

\* [heap, h]: a generated key on curve c with private scalar d, or NULL
s2n_ecc_generate_own_key(hp, c, d, faults) ==
    LET k == EC_KEY_new_by_curve_name(hp, c)
    IN  IF "keygen" \in faults
        THEN [heap |-> EC_KEY_free(k.heap, k.h), h |-> 0]
        ELSE [heap |-> [k.heap EXCEPT ![k.h].priv = d, ![k.h].pub = PubOf(c, d)], h |-> k.h]

\* [rc, err, p, heap]
s2n_ecc_generate_ephemeral_key(p, hp, d, faults) ==
    IF p.negotiated_curve = 0
    THEN [rc |-> -1, err |-> S2N_ERR_NULL, p |-> p, heap |-> hp]
    ELSE LET k == s2n_ecc_generate_own_key(hp, p.negotiated_curve, d, faults)
         IN  [rc |-> IF k.h = 0 THEN -1 ELSE 0,
              err |-> IF k.h = 0 THEN S2N_ERR_ECDHE_GEN_KEY ELSE S2N_ERR_OK,
              p |-> [p EXCEPT !.ec_key = k.h], heap |-> k.heap]

\* [ok, err, len]: the length of the uncompressed encoding of point q for
\* group c, as a uint8.  EC_POINT_point2oct checks the point first and returns
\* 0 for a NULL one; it then dereferences the group, and a NULL group kills
\* the process (err = SIGSEGV)
s2n_ecc_calculate_point_length(c, q) ==
    IF q = 0 THEN [ok |-> FALSE, err |-> S2N_ERR_ECDHE_SERIALIZING, len |-> 0]
    ELSE IF c = 0 THEN [ok |-> FALSE, err |-> SIGSEGV, len |-> 0]
    ELSE LET n == Len(EC_POINT_point2oct(c, q))
         IN  IF n = 0 \/ n > 255
             THEN [ok |-> FALSE, err |-> S2N_ERR_ECDHE_SERIALIZING, len |-> 0]
             ELSE [ok |-> TRUE, err |-> S2N_ERR_OK, len |-> n]

\* [ok, err, bytes] of s2n_ecc_write_point_data_snug for libcrypto's result r
\* and a blob of size bytes: S2N_ERROR_IF(ret != out->size, ...)
snug_result(r, size) ==
    [ok |-> r.ret = size, bytes |-> r.bytes,
     err |-> IF r.ret = size THEN S2N_ERR_OK ELSE S2N_ERR_ECDHE_SERIALIZING]

\* [ok, err, bytes]: out is the blob [data, size] to fill (data 0 is NULL),
\* bytes what EC_POINT_point2oct wrote at out.data; the call succeeds when
\* libcrypto's return equals out.size, which also holds for a NULL point or a
\* short buffer with size 0 and for a NULL buffer of the encoding's size
s2n_ecc_write_point_data_snug(c, q, out) ==
    IF q = 0
    THEN [ok |-> out.size = 0, bytes |-> << >>,
          err |-> IF out.size = 0 THEN S2N_ERR_OK ELSE S2N_ERR_ECDHE_SERIALIZING]
    ELSE IF c = 0 THEN [ok |-> FALSE, err |-> SIGSEGV, bytes |-> << >>]
    ELSE snug_result(EC_POINT_point2oct_buf(EC_POINT_point2oct(c, q), out.data, out.size), out.size)

\* [rc, err, out]: s2n_stuffer_raw_write hands out the point_len bytes behind
\* the write cursor (point_blob.data, not NULL when there is room), which
\* s2n_ecc_write_point_data_snug fills
s2n_ecc_write_point(c, q, out) ==
    LET l == s2n_ecc_calculate_point_length(c, q)
    IN  IF l.err = SIGSEGV THEN [rc |-> SIGSEGV, err |-> SIGSEGV, out |-> out]
        ELSE IF ~l.ok THEN [rc |-> -1, err |-> l.err, out |-> out]
        ELSE IF s2n_stuffer_space_remaining(out) < l.len
        THEN [rc |-> -1, err |-> S2N_ERR_NULL, out |-> out]
        ELSE LET d == Call3(s2n_ecc_write_point_data_snug, c, q,
                            [data |-> 1 + Len(out.data), size |-> l.len])
             IN  IF ~d.ok THEN [rc |-> -1, err |-> d.err, out |-> out]
                 ELSE [rc |-> 0, err |-> S2N_ERR_OK,
                       out |-> s2n_stuffer_write_bytes(out, d.bytes).s]

\* [rc, err, out]: a key that holds no public point hands a NULL point on,
\* which s2n_ecc_write_point fails to serialize
s2n_ecc_write_ecc_params_point(p, hp, out) ==
    IF p.ec_key = 0 THEN [rc |-> -1, err |-> S2N_ERR_NULL, out |-> out]
    ELSE Call3(s2n_ecc_write_point, KeyGroup(hp, p.ec_key), KeyPub(hp, p.ec_key), out)

\* [rc, err, out, written]: rc is the byte count on success, written is [off, size]
s2n_ecc_write_ecc_params(p, hp, out, written) ==
    IF p.negotiated_curve = 0 \/ p.ec_key = 0
    THEN [rc |-> -1, err |-> S2N_ERR_NULL, out |-> out, written |-> written]
    ELSE LET key_share_size == s2n_ecc_supported_curves[p.negotiated_curve].share_size
             w0 == [written EXCEPT !.off = Len(out.data)]
             a == s2n_stuffer_write_uint8(out, TLS_EC_CURVE_TYPE_NAMED)
             b == s2n_stuffer_write_uint16(a.s, s2n_ecc_supported_curves[p.negotiated_curve].iana_id)
             c == s2n_stuffer_write_uint8(b.s, key_share_size)
             d == s2n_ecc_write_ecc_params_point(p, hp, c.s)
         IN  CASE ~a.ok -> [rc |-> -1, err |-> a.err, out |-> a.s, written |-> w0]
               [] a.ok /\ ~b.ok -> [rc |-> -1, err |-> b.err, out |-> b.s, written |-> w0]
               [] a.ok /\ b.ok /\ ~c.ok -> [rc |-> -1, err |-> c.err, out |-> c.s, written |-> w0]
               [] a.ok /\ b.ok /\ c.ok /\ d.err = SIGSEGV ->
                    [rc |-> SIGSEGV, err |-> SIGSEGV, out |-> d.out, written |-> w0]
               [] a.ok /\ b.ok /\ c.ok /\ d.err \notin {SIGSEGV, S2N_ERR_OK} ->
                    [rc |-> -1, err |-> d.err, out |-> d.out, written |-> w0]
               [] OTHER -> [rc |-> key_share_size + 4, err |-> S2N_ERR_OK, out |-> d.out,
                            written |-> [w0 EXCEPT !.size = key_share_size + 4]]

\* [rc, err, in, point_blob]
s2n_ecc_read_ecc_params_point(in, point_blob, point_size) ==
    IF point_size < 0
    THEN [rc |-> -1, err |-> S2N_ERR_SAFETY, in |-> in, point_blob |-> point_blob]
    ELSE LET r == s2n_stuffer_raw_read(in, point_size)
         IN  IF ~r.ok THEN [rc |-> -1, err |-> S2N_ERR_NULL, in |-> r.s, point_blob |-> << >>]
             ELSE [rc |-> 0, err |-> S2N_ERR_OK, in |-> r.s, point_blob |-> r.bytes]

\* mutant: the span to verify leaves out the point length byte
read_ecc_params_short_span(in, data_to_verify, raw) ==
    LET t == s2n_stuffer_read_uint8(in)
        c == s2n_stuffer_raw_read(t.s, 2)
        l == s2n_stuffer_read_uint8(c.s)
        p == s2n_ecc_read_ecc_params_point(l.s, raw.point_blob, l.v)
    IN  IF t.ok /\ t.v = TLS_EC_CURVE_TYPE_NAMED /\ c.ok /\ l.ok /\ p.rc = 0
        THEN [rc |-> 0, err |-> S2N_ERR_OK, in |-> p.in,
              data_to_verify |-> [off |-> in.rd, size |-> (1 + 2) + l.v],
              raw |-> [curve_blob |-> c.bytes, point_blob |-> p.point_blob]]
        ELSE [rc |-> -1, err |-> S2N_ERR_BAD_MESSAGE, in |-> in,
              data_to_verify |-> data_to_verify, raw |-> raw]

\* [rc, err, in, data_to_verify, raw]: data_to_verify is [off, size],
\* raw is [curve_blob, point_blob]
s2n_ecc_read_ecc_params(in, data_to_verify, raw) ==
    LET v0 == [data_to_verify EXCEPT !.off = in.rd]
        t == s2n_stuffer_read_uint8(in)
        c == s2n_stuffer_raw_read(t.s, 2)
        \* curve_blob.data takes what the raw read returns, NULL (no bytes) too
        raw1 == [raw EXCEPT !.curve_blob = c.bytes]
        l == s2n_stuffer_read_uint8(c.s)
        p == s2n_ecc_read_ecc_params_point(l.s, raw.point_blob, l.v)
    IN  CASE ~t.ok ->
               [rc |-> -1, err |-> t.err, in |-> t.s, data_to_verify |-> v0, raw |-> raw]
          [] t.ok /\ t.v # TLS_EC_CURVE_TYPE_NAMED ->
               [rc |-> -1, err |-> S2N_ERR_BAD_MESSAGE, in |-> t.s, data_to_verify |-> v0, raw |-> raw]
          [] t.ok /\ t.v = TLS_EC_CURVE_TYPE_NAMED /\ ~c.ok ->
               [rc |-> -1, err |-> S2N_ERR_NULL, in |-> c.s, data_to_verify |-> v0, raw |-> raw1]
          [] t.ok /\ t.v = TLS_EC_CURVE_TYPE_NAMED /\ c.ok /\ ~l.ok ->
               [rc |-> -1, err |-> l.err, in |-> l.s, data_to_verify |-> v0, raw |-> raw1]
          [] t.ok /\ t.v = TLS_EC_CURVE_TYPE_NAMED /\ c.ok /\ l.ok /\ p.rc # 0 ->
               [rc |-> -1, err |-> p.err, in |-> p.in, data_to_verify |-> v0,
                raw |-> [raw1 EXCEPT !.point_blob = p.point_blob]]
          [] OTHER ->
               [rc |-> 0, err |-> S2N_ERR_OK, in |-> p.in,
                data_to_verify |-> [v0 EXCEPT !.size = (1 + 2) + (1 + l.v)],
                raw |-> [raw1 EXCEPT !.point_blob = p.point_blob]]

\* the point a blob decodes to on the group of key h, 0 (NULL) when it does
\* not; EC_KEY_get0_group dereferences the key, so a NULL key kills the process
s2n_ecc_blob_to_point(blob, hp, h) ==
    IF h = 0 THEN SIGSEGV ELSE Call2(EC_POINT_oct2point, KeyGroup(hp, h), blob)

\* mutant: a point that does not decode is reported as an unsupported curve
parse_ecc_params_point_wrong_error(p, hp, point_blob, faults) ==
    LET k == EC_KEY_new_by_curve_name(hp, p.negotiated_curve)
        q == s2n_ecc_blob_to_point(point_blob, k.heap, k.h)
    IN  IF p.negotiated_curve = 0
        THEN [rc |-> -1, err |-> S2N_ERR_NULL, p |-> p, heap |-> hp]
        ELSE IF "new_key" \in faults
        THEN [rc |-> -1, err |-> S2N_ERR_ECDHE_UNSUPPORTED_CURVE,
              p |-> [p EXCEPT !.ec_key = 0], heap |-> hp]
        ELSE IF q = 0
        THEN [rc |-> -1, err |-> S2N_ERR_ECDHE_UNSUPPORTED_CURVE,
              p |-> [p EXCEPT !.ec_key = k.h], heap |-> k.heap]
        ELSE IF "set_public_key" \in faults
        THEN [rc |-> -1, err |-> S2N_ERR_BAD_MESSAGE,
              p |-> [p EXCEPT !.ec_key = k.h], heap |-> k.heap]
        ELSE [rc |-> 0, err |-> S2N_ERR_OK, p |-> [p EXCEPT !.ec_key = k.h],
              heap |-> [k.heap EXCEPT ![k.h].pub = q]]

\* [rc, err, p, heap]: ec_key is assigned before it is checked, so a failed
\* allocation (line 150) leaves NULL in it; a point that does not decode (154)
\* or that libcrypto does not install (161) leaves the new key without a
\* public point.  The decoded EC_POINT is freed on every path that made it.
s2n_ecc_parse_ecc_params_point(p, hp, point_blob, faults) ==
    IF p.negotiated_curve = 0
    THEN [rc |-> -1, err |-> S2N_ERR_NULL, p |-> p, heap |-> hp]
    ELSE IF "new_key" \in faults
    THEN [rc |-> -1, err |-> S2N_ERR_ECDHE_UNSUPPORTED_CURVE,
          p |-> [p EXCEPT !.ec_key = 0], heap |-> hp]
    ELSE LET k == EC_KEY_new_by_curve_name(hp, p.negotiated_curve)
             p1 == [p EXCEPT !.ec_key = k.h]
             q == s2n_ecc_blob_to_point(point_blob, k.heap, k.h)
         IN  IF q = 0 \/ "set_public_key" \in faults
             THEN [rc |-> -1, err |-> S2N_ERR_BAD_MESSAGE, p |-> p1, heap |-> k.heap]
             ELSE [rc |-> 0, err |-> S2N_ERR_OK, p |-> p1,
                   heap |-> [k.heap EXCEPT ![k.h].pub = q]]

\* [rc, err, p, heap]
s2n_ecc_parse_ecc_params(p, hp, raw, faults) ==
    LET f == s2n_ecc_find_supported_curve(raw.curve_blob, p.negotiated_curve)
    IN  IF f.rc # 0
        THEN [rc |-> -1, err |-> S2N_ERR_ECDHE_UNSUPPORTED_CURVE, p |-> p, heap |-> hp]
        ELSE s2n_ecc_parse_ecc_params_point([p EXCEPT !.negotiated_curve = f.found],
                                            hp, raw.point_blob, faults)

\* mutant: a wrong-length ECDH result leaves the allocated buffer in the blob
compute_shared_secret_no_free(hp, own_key, peer_public, shared_secret, faults) ==
    LET c == KeyGroup(hp, own_key)
        field_degree == IF "degree" \in faults THEN 0 ELSE EC_GROUP_get_degree(c)
        shared_secret_size == (field_degree + 7) \div 8
        secret == ECDH_compute_key(c, shared_secret_size, peer_public, KeyPriv(hp, own_key), faults)
    IN  IF field_degree <= 0
        THEN [rc |-> -1, err |-> S2N_ERR_ECDHE_SHARED_SECRET, shared_secret |-> shared_secret]
        ELSE IF Len(secret) # shared_secret_size
        THEN [rc |-> -1, err |-> S2N_ERR_ECDHE_SHARED_SECRET,
              shared_secret |-> PadBE(0, shared_secret_size)]
        ELSE [rc |-> 0, err |-> S2N_ERR_OK, shared_secret |-> secret]

\* [rc, err, shared_secret]: shared_secret is the blob's bytes, << >> when freed;
\* EC_KEY_get0_group dereferences own_key, so a NULL key kills the process
s2n_ecc_compute_shared_secret(hp, own_key, peer_public, shared_secret, faults) ==
    LET c == KeyGroup(hp, own_key)
        field_degree == IF "degree" \in faults THEN 0 ELSE EC_GROUP_get_degree(c)
        shared_secret_size == (field_degree + 7) \div 8
        secret == ECDH_compute_key(c, shared_secret_size, peer_public, KeyPriv(hp, own_key), faults)
    IN  IF own_key = 0
        THEN [rc |-> SIGSEGV, err |-> SIGSEGV, shared_secret |-> shared_secret]
        ELSE IF field_degree <= 0
        THEN [rc |-> -1, err |-> S2N_ERR_ECDHE_SHARED_SECRET, shared_secret |-> shared_secret]
        ELSE IF Len(secret) # shared_secret_size
        THEN [rc |-> -1, err |-> S2N_ERR_ECDHE_SHARED_SECRET, shared_secret |-> << >>]
        ELSE [rc |-> 0, err |-> S2N_ERR_OK, shared_secret |-> secret]

\* [rc, err, Yc_in, shared_key]
s2n_ecc_compute_shared_secret_as_server(p, hp, Yc_in, shared_key, faults) ==
    LET l == s2n_stuffer_read_uint8(Yc_in)
        b == s2n_stuffer_raw_read(l.s, l.v)
        client_public == s2n_ecc_blob_to_point(b.bytes, hp, p.ec_key)
        r == s2n_ecc_compute_shared_secret(hp, p.ec_key, client_public, shared_key, faults)
    IN  IF ~l.ok THEN [rc |-> -1, err |-> l.err, Yc_in |-> l.s, shared_key |-> shared_key]
        ELSE IF ~b.ok
        THEN [rc |-> -1, err |-> S2N_ERR_NULL, Yc_in |-> b.s, shared_key |-> shared_key]
        ELSE IF p.ec_key = 0
        THEN [rc |-> SIGSEGV, err |-> SIGSEGV, Yc_in |-> b.s, shared_key |-> shared_key]
        ELSE IF client_public = 0
        THEN [rc |-> -1, err |-> S2N_ERR_BAD_MESSAGE, Yc_in |-> b.s, shared_key |-> shared_key]
        ELSE [rc |-> r.rc, err |-> r.err, Yc_in |-> b.s, shared_key |-> r.shared_secret]

\* mutant: the secret is computed against the client's own public point
compute_shared_secret_as_client_own_point(p, hp, Yc_out, shared_key, d, faults) ==
    LET k == s2n_ecc_generate_own_key(hp, p.negotiated_curve, d, faults)
        s == s2n_ecc_compute_shared_secret(k.heap, k.h, KeyPub(k.heap, k.h), shared_key, faults)
        l == s2n_stuffer_write_uint8(Yc_out, s2n_ecc_supported_curves[p.negotiated_curve].share_size)
        w == s2n_ecc_write_point(KeyGroup(k.heap, k.h), KeyPub(k.heap, k.h), l.s)
    IN  IF k.h # 0 /\ s.rc = 0 /\ l.ok /\ w.rc = 0
        THEN [rc |-> 0, err |-> S2N_ERR_OK, heap |-> EC_KEY_free(k.heap, k.h), Yc_out |-> w.out,
              shared_key |-> s.shared_secret, client_key |-> k.h]
        ELSE [rc |-> -1, err |-> S2N_ERR_ECDHE_SHARED_SECRET, heap |-> EC_KEY_free(k.heap, k.h),
              Yc_out |-> Yc_out, shared_key |-> shared_key, client_key |-> k.h]

\* [rc, err, heap, Yc_out, shared_key, client_key]: client_key is the handle of
\* the key the call generated (0 when generation failed)
s2n_ecc_compute_shared_secret_as_client(p, hp, Yc_out, shared_key, d, faults) ==
    IF p.negotiated_curve = 0
    THEN [rc |-> -1, err |-> S2N_ERR_NULL, heap |-> hp, Yc_out |-> Yc_out,
          shared_key |-> shared_key, client_key |-> 0]
    ELSE LET k == s2n_ecc_generate_own_key(hp, p.negotiated_curve, d, faults)
             s == s2n_ecc_compute_shared_secret(k.heap, k.h, KeyPub(k.heap, p.ec_key),
                                                shared_key, faults)
             l == s2n_stuffer_write_uint8(Yc_out,
                      s2n_ecc_supported_curves[p.negotiated_curve].share_size)
             w == Call3(s2n_ecc_write_point, KeyGroup(k.heap, k.h), KeyPub(k.heap, k.h), l.s)
         IN  IF k.h = 0
             THEN [rc |-> -1, err |-> S2N_ERR_ECDHE_GEN_KEY, heap |-> k.heap, Yc_out |-> Yc_out,
                   shared_key |-> shared_key, client_key |-> 0]
             \* line 198 dereferences server_ecc_params->ec_key unchecked
             ELSE IF p.ec_key = 0
             THEN [rc |-> SIGSEGV, err |-> SIGSEGV, heap |-> k.heap, Yc_out |-> Yc_out,
                   shared_key |-> shared_key, client_key |-> k.h]
             ELSE IF s.rc # 0
             THEN [rc |-> -1, err |-> S2N_ERR_ECDHE_SHARED_SECRET,
                   heap |-> EC_KEY_free(k.heap, k.h), Yc_out |-> Yc_out,
                   shared_key |-> s.shared_secret, client_key |-> k.h]
             ELSE IF ~l.ok
             THEN [rc |-> -1, err |-> l.err, heap |-> k.heap, Yc_out |-> l.s,
                   shared_key |-> s.shared_secret, client_key |-> k.h]
             ELSE IF w.rc # 0
             THEN [rc |-> -1, err |-> S2N_ERR_ECDHE_SERIALIZING,
                   heap |-> EC_KEY_free(k.heap, k.h), Yc_out |-> w.out,
                   shared_key |-> s.shared_secret, client_key |-> k.h]
             ELSE [rc |-> 0, err |-> S2N_ERR_OK, heap |-> EC_KEY_free(k.heap, k.h),
                   Yc_out |-> w.out, shared_key |-> s.shared_secret, client_key |-> k.h]

\* [p, heap]
s2n_ecc_params_free(p, hp) ==
    IF p.ec_key # 0
    THEN [p |-> [p EXCEPT !.ec_key = 0], heap |-> EC_KEY_free(hp, p.ec_key)]
    ELSE [p |-> p, heap |-> hp]

(***************************************************************************)
(* tls/extensions/s2n_client_key_share.c: receive.                         *)
(* The state of a call is a record st: conn (the client_ecc_params slots), *)
(* heap, ext (the extension stuffer), the locals key_shares_size and       *)
(* bytes_processed, status ("loop" while in the while loop, "done" after   *)
(* the return), rc and err.                                                *)
(***************************************************************************)
RecvReturn(st, rc, err) == [st EXCEPT !.status = "done", !.rc = rc, !.err = err]

\* the registry index of a named group, 0 when the group is not supported
SupportedCurveIndex(named_group) ==
    IF \E i \in Curves : s2n_ecc_supported_curves[i].iana_id = named_group
    THEN CHOOSE i \in Curves :
             /\ s2n_ecc_supported_curves[i].iana_id = named_group
             /\ \A j \in 1..(i - 1) : s2n_ecc_supported_curves[j].iana_id # named_group
    ELSE 0

\* mutant: a point that does not decode leaves the slot marked, with its key
recv_store_share_no_restore(st, i, share_size) ==
    LET r == s2n_ecc_read_ecc_params_point(st.ext, << >>, share_size)
        p1 == [st.conn[i] EXCEPT !.negotiated_curve = i]
        q == s2n_ecc_parse_ecc_params_point(p1, st.heap, r.point_blob, {})
    IN  IF r.rc # 0 THEN RecvReturn([st EXCEPT !.ext = r.in], -1, r.err)
        ELSE [st EXCEPT !.ext = r.in, !.conn[i] = q.p, !.heap = q.heap]

\* a share that passed every check: read the point and install it in slot i.
\* The loop is followed with libcrypto allocating and installing the key; a
\* failure of either (150, 161) takes the branch of the point that does not
\* decode (448-452).
recv_store_share(st, i, share_size) ==
    LET r == s2n_ecc_read_ecc_params_point(st.ext, << >>, share_size)
        p1 == [st.conn[i] EXCEPT !.negotiated_curve = i]
        q == s2n_ecc_parse_ecc_params_point(p1, st.heap, r.point_blob, {})
        f == s2n_ecc_params_free([q.p EXCEPT !.negotiated_curve = 0], q.heap)
    IN  IF r.rc # 0 THEN RecvReturn([st EXCEPT !.ext = r.in], -1, r.err)
        ELSE IF q.rc < 0
        THEN [st EXCEPT !.ext = r.in, !.conn[i] = f.p, !.heap = f.heap]
        ELSE [st EXCEPT !.ext = r.in, !.conn[i] = q.p, !.heap = q.heap]

\* skip the key_exchange bytes of a share that is ignored
recv_skip_share(st, share_size) ==
    LET r == s2n_stuffer_skip_read(st.ext, share_size)
    IN  IF ~r.ok THEN RecvReturn([st EXCEPT !.ext = r.s], -1, r.err)
        ELSE [st EXCEPT !.ext = r.s]

\* mutant: a later share for a group replaces the one already received
recv_handle_share_no_duplicate_check(st, named_group, share_size) ==
    LET i == SupportedCurveIndex(named_group)
    IN  IF i = 0 THEN recv_skip_share(st, share_size)
        ELSE IF s2n_ecc_supported_curves[i].share_size # share_size
        THEN recv_skip_share(st, share_size)
        ELSE recv_store_share(st, i, share_size)

\* mutant: a share of unexpected size for a supported group is a bad message
recv_handle_share_strict_size(st, named_group, share_size) ==
    LET i == SupportedCurveIndex(named_group)
    IN  IF i = 0 THEN recv_skip_share(st, share_size)
        ELSE IF st.conn[i].negotiated_curve # 0 THEN recv_skip_share(st, share_size)
        ELSE IF s2n_ecc_supported_curves[i].share_size # share_size
        THEN RecvReturn(st, -1, S2N_ERR_BAD_MESSAGE)
        ELSE recv_store_share(st, i, share_size)

\* mutant: the slot is marked before the share size is compared
recv_handle_share_marks_before_size_check(st, named_group, share_size) ==
    LET i == SupportedCurveIndex(named_group)
    IN  IF i = 0 THEN recv_skip_share(st, share_size)
        ELSE IF st.conn[i].negotiated_curve # 0 THEN recv_skip_share(st, share_size)
        ELSE IF s2n_ecc_supported_curves[i].share_size # share_size
        THEN recv_skip_share([st EXCEPT !.conn[i].negotiated_curve = i], share_size)
        ELSE recv_store_share(st, i, share_size)

\* what the loop does with a share whose header was read and whose
\* key_exchange bytes are all there
recv_handle_share(st, named_group, share_size) ==
    LET i == SupportedCurveIndex(named_group)
    IN  IF i = 0 THEN recv_skip_share(st, share_size)
        ELSE IF st.conn[i].negotiated_curve # 0 THEN recv_skip_share(st, share_size)
        ELSE IF s2n_ecc_supported_curves[i].share_size # share_size
        THEN recv_skip_share(st, share_size)
        ELSE recv_store_share(st, i, share_size)

\* mutant: the check of key_exchange_length against the bytes left is missing
recv_share_no_length_check(st) ==
    IF ~(st.bytes_processed < st.key_shares_size) THEN RecvReturn(st, 0, S2N_ERR_OK)
    ELSE LET g == s2n_stuffer_read_uint16(st.ext)
             z == s2n_stuffer_read_uint16(g.s)
         IN  IF ~g.ok THEN RecvReturn([st EXCEPT !.ext = g.s], -1, g.err)
             ELSE IF ~z.ok THEN RecvReturn([st EXCEPT !.ext = z.s], -1, z.err)
             ELSE recv_handle_share(
                      [st EXCEPT !.ext = z.s,
                                 !.bytes_processed = st.bytes_processed + z.v
                                     + S2N_SIZE_OF_NAMED_GROUP + S2N_SIZE_OF_KEY_SHARE_SIZE],
                      g.v, z.v)

\* mutant: the four header bytes of a share are not counted
recv_share_header_not_counted(st) ==
    IF ~(st.bytes_processed < st.key_shares_size) THEN RecvReturn(st, 0, S2N_ERR_OK)
    ELSE LET g == s2n_stuffer_read_uint16(st.ext)
             z == s2n_stuffer_read_uint16(g.s)
         IN  IF ~g.ok THEN RecvReturn([st EXCEPT !.ext = g.s], -1, g.err)
             ELSE IF ~z.ok THEN RecvReturn([st EXCEPT !.ext = z.s], -1, z.err)
             ELSE IF s2n_stuffer_data_available(z.s) < z.v
             THEN RecvReturn([st EXCEPT !.ext = z.s], -1, S2N_ERR_BAD_MESSAGE)
             ELSE recv_handle_share(
                      [st EXCEPT !.ext = z.s, !.bytes_processed = st.bytes_processed + z.v],
                      g.v, z.v)

\* one evaluation of the loop condition and, when it holds, one iteration
recv_share(st) ==
    IF ~(st.bytes_processed < st.key_shares_size) THEN RecvReturn(st, 0, S2N_ERR_OK)
    ELSE LET g == s2n_stuffer_read_uint16(st.ext)
             z == s2n_stuffer_read_uint16(g.s)
         IN  IF ~g.ok THEN RecvReturn([st EXCEPT !.ext = g.s], -1, g.err)
             ELSE IF ~z.ok THEN RecvReturn([st EXCEPT !.ext = z.s], -1, z.err)
             ELSE IF s2n_stuffer_data_available(z.s) < z.v
             THEN RecvReturn([st EXCEPT !.ext = z.s], -1, S2N_ERR_BAD_MESSAGE)
             ELSE recv_handle_share(
                      [st EXCEPT !.ext = z.s,
                                 !.bytes_processed = st.bytes_processed + z.v
                                     + S2N_SIZE_OF_NAMED_GROUP + S2N_SIZE_OF_KEY_SHARE_SIZE],
                      g.v, z.v)

\* the call up to the loop: read client_shares_length and check it
recv_begin(conn, hp, ext) ==
    LET k == s2n_stuffer_read_uint16(ext)
        st == [conn |-> conn, heap |-> hp, ext |-> k.s, key_shares_size |-> k.v,
               bytes_processed |-> 0, status |-> "loop", rc |-> 0, err |-> S2N_ERR_OK]
    IN  IF ~k.ok THEN RecvReturn(st, -1, k.err)
        ELSE IF s2n_stuffer_data_available(k.s) < k.v
        THEN RecvReturn(st, -1, S2N_ERR_BAD_MESSAGE)
        ELSE st

RECURSIVE recv_run(_)
recv_run(st) == IF st.status = "done" THEN st ELSE Call1(recv_run, Call1(recv_share, st))

\* the whole call: the record st at the return
s2n_extensions_client_key_share_recv(conn, hp, ext) ==
    Call1(recv_run, Call3(recv_begin, conn, hp, ext))

(***************************************************************************)
(* tls/extensions/s2n_client_key_share.c: size and send.                   *)
(***************************************************************************)
\* a C int narrowed to uint16_t
Uint16(v) == v % 65536

RECURSIVE key_share_init_from(_, _)
\* the loop of s2n_client_key_share_init from registry index i on
key_share_init_from(size, i) ==
    IF i > S2N_ECC_SUPPORTED_CURVES_COUNT THEN size
    ELSE key_share_init_from(size + S2N_SIZE_OF_KEY_SHARE_SIZE + S2N_SIZE_OF_NAMED_GROUP
                                  + s2n_ecc_supported_curves[i].share_size, i + 1)

\* mutant: the share sizes of the curves are left out of the extension size
client_key_share_init_headers_only ==
    S2N_SIZE_OF_EXTENSION_TYPE + S2N_SIZE_OF_EXTENSION_DATA_SIZE + S2N_SIZE_OF_CLIENT_SHARES_SIZE
        + S2N_ECC_SUPPORTED_CURVES_COUNT * (S2N_SIZE_OF_KEY_SHARE_SIZE + S2N_SIZE_OF_NAMED_GROUP)

\* mutant: the size is not reset, so every call adds to what is there
client_key_share_init_accumulating ==
    key_share_init_from(ext_size + S2N_SIZE_OF_EXTENSION_TYPE + S2N_SIZE_OF_EXTENSION_DATA_SIZE
                            + S2N_SIZE_OF_CLIENT_SHARES_SIZE, 1)

\* the value the call leaves in s2n_client_key_share_extension_size
s2n_client_key_share_init ==
    key_share_init_from(S2N_SIZE_OF_EXTENSION_TYPE + S2N_SIZE_OF_EXTENSION_DATA_SIZE
                            + S2N_SIZE_OF_CLIENT_SHARES_SIZE, 1)

s2n_extensions_client_key_share_size(size) == size

\* [rc, err, p, heap, out]
s2n_ecdhe_parameters_send(p, hp, out, d, faults) ==
    IF p.negotiated_curve = 0
    THEN [rc |-> -1, err |-> S2N_ERR_NULL, p |-> p, heap |-> hp, out |-> out]
    ELSE LET a == s2n_stuffer_write_uint16(out, s2n_ecc_supported_curves[p.negotiated_curve].iana_id)
             b == s2n_stuffer_write_uint16(a.s, s2n_ecc_supported_curves[p.negotiated_curve].share_size)
             g == s2n_ecc_generate_ephemeral_key(p, hp, d, faults)
             w == s2n_ecc_write_ecc_params_point(g.p, g.heap, b.s)
         IN  CASE ~a.ok -> [rc |-> -1, err |-> a.err, p |-> p, heap |-> hp, out |-> a.s]
               [] a.ok /\ ~b.ok -> [rc |-> -1, err |-> b.err, p |-> p, heap |-> hp, out |-> b.s]
               [] a.ok /\ b.ok /\ g.rc # 0 ->
                    [rc |-> -1, err |-> g.err, p |-> g.p, heap |-> g.heap, out |-> b.s]
               [] OTHER -> [rc |-> w.rc, err |-> w.err, p |-> g.p, heap |-> g.heap, out |-> w.out]

RECURSIVE supported_curves_send_from(_, _, _, _, _, _)
\* the loop of s2n_ecdhe_supported_curves_send from registry index i on;
\* ds[i] is the scalar key generation draws for curve i, fls[i] the faults
\* libcrypto reports there
supported_curves_send_from(conn, hp, out, i, ds, fls) ==
    IF i > S2N_ECC_SUPPORTED_CURVES_COUNT
    THEN [rc |-> 0, err |-> S2N_ERR_OK, conn |-> conn, heap |-> hp, out |-> out]
    ELSE LET r == Call5(s2n_ecdhe_parameters_send, [conn[i] EXCEPT !.negotiated_curve = i],
                        hp, out, ds[i], fls[i])
         IN  IF r.rc # 0
             THEN [rc |-> -1, err |-> r.err, conn |-> [conn EXCEPT ![i] = r.p],
                   heap |-> r.heap, out |-> r.out]
             ELSE Call6(supported_curves_send_from, [conn EXCEPT ![i] = r.p], r.heap, r.out,
                        i + 1, ds, fls)

\* [rc, err, conn, heap, out]
s2n_ecdhe_supported_curves_send(conn, hp, out, ds, fls) ==
    supported_curves_send_from(conn, hp, out, 1, ds, fls)

\* [rc, err, conn, heap, out]; size is s2n_client_key_share_extension_size
s2n_extensions_client_key_share_send(conn, hp, out, size, ds, fls) ==
    LET extension_data_size ==
            Uint16(size - S2N_SIZE_OF_EXTENSION_TYPE - S2N_SIZE_OF_EXTENSION_DATA_SIZE)
        client_shares_size == Uint16(extension_data_size - S2N_SIZE_OF_CLIENT_SHARES_SIZE)
        a == s2n_stuffer_write_uint16(out, TLS_EXTENSION_KEY_SHARE)
        b == s2n_stuffer_write_uint16(a.s, extension_data_size)
        c == s2n_stuffer_write_uint16(b.s, client_shares_size)
    IN  CASE ~a.ok -> [rc |-> -1, err |-> a.err, conn |-> conn, heap |-> hp, out |-> a.s]
          [] a.ok /\ ~b.ok -> [rc |-> -1, err |-> b.err, conn |-> conn, heap |-> hp, out |-> b.s]
          [] a.ok /\ b.ok /\ ~c.ok ->
               [rc |-> -1, err |-> c.err, conn |-> conn, heap |-> hp, out |-> c.s]
          [] OTHER -> s2n_ecdhe_supported_curves_send(conn, hp, c.s, ds, fls)

(***************************************************************************)
(* Values of the variables a specification does not use.                   *)
(***************************************************************************)
UnsetParams == [negotiated_curve |-> 0, ec_key |-> 0]

UnsetSlots == [i \in Curves |-> UnsetParams]

NoStuffer == s2n_stuffer_init(0)

NoValue == [none |-> TRUE]

(***************************************************************************)
(* SpecFind: s2n_ecc_find_supported_curve on every candidate id list of at *)
(* most MaxIdBytes bytes, with *found holding any value before the call.   *)
(***************************************************************************)
IdBytes == {0, TLS_EC_CURVE_SECP_256_R1, TLS_EC_CURVE_SECP_384_R1}

IdLists == UNION {[1..k -> IdBytes] : k \in 0..MaxIdBytes}

InitFind ==
    /\ pc = "find_call"
    /\ inp \in [iana_ids : IdLists, found0 : 0..S2N_ECC_SUPPORTED_CURVES_COUNT]
    /\ ret = NoValue
    /\ ext_size = 0
    /\ conns = [B |-> UnsetSlots]
    /\ params = NoValue
    /\ heap = << >>
    /\ wire = NoStuffer
    /\ loc = NoValue

FindSupportedCurve ==
    /\ pc = "find_call"
    /\ ret' = s2n_ecc_find_supported_curve(inp.iana_ids, inp.found0)
    /\ pc' = "find_done"
    /\ UNCHANGED <<ext_size, conns, params, heap, wire, loc, inp>>

NextFind == FindSupportedCurve

SpecFind == InitFind /\ [][NextFind]_vars

\* the ids of the complete 2-byte entries of a candidate list
CompleteIds(b) == {b[2 * k - 1] * 256 + b[2 * k] : k \in 1..(Len(b) \div 2)}

\* the registry curves whose id is among the complete entries of the list
Matches(b) == {i \in Curves : s2n_ecc_supported_curves[i].iana_id \in CompleteIds(b)}

\* C5: when the candidate list holds the ids of registry curves, the call
\* succeeds and returns the one with the smallest registry index, whatever
\* the order of the candidates.
C5_RegistryOrderWins ==
    (pc = "find_done" /\ Matches(inp.iana_ids) # {})
        => (ret.rc = 0 /\ ret.found = SetMin(Matches(inp.iana_ids)))

C5_Witness ==
    /\ pc = "find_done"
    /\ Len(inp.iana_ids) = 4
    /\ inp.iana_ids[2] = TLS_EC_CURVE_SECP_384_R1 /\ inp.iana_ids[1] = 0
    /\ inp.iana_ids[4] = TLS_EC_CURVE_SECP_256_R1 /\ inp.iana_ids[3] = 0
    /\ inp.found0 = 0
    /\ ret.rc = 0 /\ ret.found = 1

\* C6 as stated: the call fails with UnsupportedCurve and leaves *found alone
\* when no candidate matches and also whenever the list has an odd length.
C6_OddLengthFails ==
    (pc = "find_done" /\ (Matches(inp.iana_ids) = {} \/ Len(inp.iana_ids) % 2 = 1))
        => (ret.rc = -1 /\ ret.err = S2N_ERR_ECDHE_UNSUPPORTED_CURVE /\ ret.found = inp.found0)

\* C6 amended: the call fails exactly when none of the complete 2-byte entries
\* matches a registry curve (a trailing odd byte is ignored), and a failure is
\* UnsupportedCurve with *found unchanged.
C6_FailsIffNoMatch ==
    pc = "find_done"
        => /\ (ret.rc = -1) <=> (Matches(inp.iana_ids) = {})
           /\ ret.rc # 0 => (ret.err = S2N_ERR_ECDHE_UNSUPPORTED_CURVE /\ ret.found = inp.found0)
           /\ ret.rc \in {0, -1}

C6_Witness ==
    /\ pc = "find_done"
    /\ Len(inp.iana_ids) = 3
    /\ Matches(inp.iana_ids) = {}
    /\ inp.found0 = 2
    /\ ret.rc = -1 /\ ret.err = S2N_ERR_ECDHE_UNSUPPORTED_CURVE /\ ret.found = 2

(***************************************************************************)
(* SpecRecv: s2n_extensions_client_key_share_recv on a connection whose    *)
(* slots are unset, one step per loop iteration.  The extension is built   *)
(* from at most MaxShares shares and a framing.                            *)
(*   share   [group, kind, d]: kind "valid" carries the point of scalar d, *)
(*           "hybrid" that point in the hybrid form (same size, decodes),  *)
(*           "wrong_size" that encoding less its last byte, "bad_point"    *)
(*           an encoding of the right size with a wrong tag byte; a share  *)
(*           for the unsupported group carries two bytes; kind "empty" has *)
(*           key_exchange_length 0;                                        *)
(*   framing [cut, declared]: cut bytes are missing at the end of the      *)
(*           extension; client_shares_length is the length of the shares   *)
(*           present ("exact"), of the shares before the cut ("full"),     *)
(*           one more ("more") or one less ("less").                       *)
(***************************************************************************)
\* a named group outside the registry (x25519)
UnsupportedGroup == TLS_EC_CURVE_SECP_384_R1 + 5

Shares ==
    [group : {s2n_ecc_supported_curves[i].iana_id : i \in Curves}, kind : {"valid"}, d : 1..MaxScalar]
    \cup [group : {s2n_ecc_supported_curves[i].iana_id : i \in Curves},
          kind : {"wrong_size", "bad_point"}, d : {1}]
    \cup [group : {TLS_EC_CURVE_SECP_256_R1}, kind : {"hybrid"}, d : {1}]
    \cup [group : {UnsupportedGroup}, kind : {"wrong_size"}, d : {1}]
    \cup [group : {s2n_ecc_supported_curves[i].iana_id : i \in Curves} \cup {UnsupportedGroup},
          kind : {"empty"}, d : {1}]

ShareLists == UNION {[1..k -> Shares] : k \in 0..MaxShares}

Framings ==
    {[cut |-> 0, declared |-> "exact"], [cut |-> 0, declared |-> "more"],
     [cut |-> 0, declared |-> "less"], [cut |-> 1, declared |-> "exact"],
     [cut |-> 5, declared |-> "exact"], [cut |-> 5, declared |-> "full"]}

\* the key_exchange bytes of a share
KeyExchange(sh) ==
    LET c == SupportedCurveIndex(sh.group)
        enc == EC_POINT_point2oct(c, PubOf(c, sh.d))
    IN  IF sh.kind = "empty" THEN << >>
        ELSE IF c = 0 THEN << 1, 2 >>
        ELSE CASE sh.kind = "valid" -> enc
               [] sh.kind = "hybrid" -> << 6 + (enc[Len(enc)] % 2) >> \o Slice(enc, 2, Len(enc))
               [] sh.kind = "wrong_size" -> Slice(enc, 1, Len(enc) - 1)
               [] OTHER -> << 5 >> \o Slice(enc, 2, Len(enc))

ShareBytes(sh) == U16Bytes(sh.group) \o U16Bytes(Len(KeyExchange(sh))) \o KeyExchange(sh)

RECURSIVE SharesBytes(_)
SharesBytes(shs) == IF shs = << >> THEN << >> ELSE ShareBytes(Head(shs)) \o SharesBytes(Tail(shs))

Max0(x) == IF x < 0 THEN 0 ELSE x

\* the bytes of the extension from client_shares_length on
ExtensionBytes(shs, f) ==
    LET body == SharesBytes(shs)
        declared == CASE f.declared = "exact" -> Max0(Len(body) - f.cut)
                      [] f.declared = "full" -> Len(body)
                      [] f.declared = "more" -> Len(body) + 1
                      [] OTHER -> Max0(Len(body) - 1)
        all == U16Bytes(declared) \o body
    IN  Slice(all, 1, Max0(Len(all) - f.cut))

StufferOf(bytes) == [data |-> bytes, rd |-> 0, cap |-> Len(bytes)]

InitRecv ==
    /\ pc = "recv_call"
    /\ inp \in [shares : ShareLists, framing : Framings]
    /\ wire = StufferOf(ExtensionBytes(inp.shares, inp.framing))
    /\ conns = [B |-> UnsetSlots]
    /\ heap = << >>
    /\ loc = NoValue
    /\ ret = NoValue
    /\ ext_size = 0
    /\ params = NoValue

\* the variables after a step that leaves the call in state st; iterations
\* counts the times the loop body was entered
RecvState(st) ==
    /\ conns' = [conns EXCEPT !.B = st.conn]
    /\ heap' = st.heap
    /\ wire' = st.ext
    /\ loc' = [key_shares_size |-> st.key_shares_size, bytes_processed |-> st.bytes_processed,
               iterations |-> IF pc = "recv_call" THEN 0
                              ELSE IF loc.bytes_processed < loc.key_shares_size
                                   THEN loc.iterations + 1
                                   ELSE loc.iterations]
    /\ ret' = IF st.status = "done" THEN [rc |-> st.rc, err |-> st.err] ELSE NoValue
    /\ pc' = IF st.status = "done" THEN "recv_done" ELSE "recv_loop"
    /\ UNCHANGED <<ext_size, params, inp>>

RecvBegin ==
    /\ pc = "recv_call"
    /\ RecvState(recv_begin(conns.B, heap, wire))

RecvShare ==
    /\ pc = "recv_loop"
    /\ RecvState(recv_share([conn |-> conns.B, heap |-> heap, ext |-> wire,
                             key_shares_size |-> loc.key_shares_size,
                             bytes_processed |-> loc.bytes_processed,
                             status |-> "loop", rc |-> 0, err |-> S2N_ERR_OK]))

NextRecv == RecvBegin \/ RecvShare

SpecRecv == InitRecv /\ [][NextRecv]_vars

\* the call runs to its return, nothing suspends it: weak fairness of both
\* steps.  For RecvShare the condition is written out, WF_vars(A) being
\* []<>~ENABLED <<A>>_vars \/ []<><<A>>_vars: an evaluation of the loop
\* condition is possible exactly at "recv_loop", and it either returns or
\* moves the read cursor.
SpecRecvLive ==
    /\ SpecRecv
    /\ WF_vars(RecvBegin)
    /\ ([]<>(pc # "recv_loop") \/ []<><<RecvShare>>_vars)

\* slot i of the receiving connection holds no curve and no key
SlotUnset(i) == conns.B[i] = UnsetParams

\* slot i holds curve i and a key that carries public point q and no private scalar
SlotHolds(i, q) ==
    /\ conns.B[i].negotiated_curve = i
    /\ conns.B[i].ec_key # 0
    /\ heap[conns.B[i].ec_key] = [nid |-> i, priv |-> 0, pub |-> q, live |-> TRUE]

\* the extension offers exactly two shares, both for registry curve i, and is
\* framed correctly
TwoSharesFor(i) ==
    /\ Len(inp.shares) = 2
    /\ \A k \in 1..2 : inp.shares[k].group = s2n_ecc_supported_curves[i].iana_id
    /\ inp.framing = [cut |-> 0, declared |-> "exact"]

\* C1 as stated: with two shares for one group the call succeeds and a
\* populated slot holds the point of the first of the two shares.
C1_FirstOccurrenceWins ==
    \A i \in Curves :
        (pc = "recv_done" /\ TwoSharesFor(i))
            => /\ ret.rc = 0
               /\ \A j \in Curves \ {i} : SlotUnset(j)
               /\ \/ SlotUnset(i)
                  \/ /\ inp.shares[1].kind \in {"valid", "hybrid"}
                     /\ SlotHolds(i, PubOf(i, inp.shares[1].d))

\* the positions of the shares that have the curve's size and decode: the
\* uncompressed and the hybrid form of a point
ValidAt(shs) == {k \in 1..Len(shs) : shs[k].kind \in {"valid", "hybrid"}}

\* C1 amended: with two shares for one group the call succeeds, no other slot
\* is populated, and the slot holds the point of the first of the two shares
\* that has the curve's share size and decodes; a later share never replaces
\* an accepted one, and the slot stays unset when neither share is acceptable.
C1_FirstAcceptedWins ==
    \A i \in Curves :
        (pc = "recv_done" /\ TwoSharesFor(i))
            => /\ ret.rc = 0
               /\ \A j \in Curves \ {i} : SlotUnset(j)
               /\ IF ValidAt(inp.shares) = {} THEN SlotUnset(i)
                  ELSE SlotHolds(i, PubOf(i, inp.shares[SetMin(ValidAt(inp.shares))].d))

C1_Witness ==
    /\ pc = "recv_done"
    /\ TwoSharesFor(1)
    /\ inp.shares[1].kind = "valid" /\ inp.shares[1].d = 2
    /\ inp.shares[2].kind = "valid" /\ inp.shares[2].d = 1
    /\ ret.rc = 0
    /\ SlotHolds(1, PubOf(1, 2))

\* the uint16 at offset off (0-based) of bytes b
U16At(b, off) == b[off + 1] * 256 + b[off + 2]

RECURSIVE FramingFrom(_, _, _, _)
\* what is wrong with the framing of the shares from offset pos on, given the
\* declared client_shares_length and the bytes the shares before pos took
FramingFrom(b, pos, processed, declared) ==
    IF processed >= declared THEN "ok"
    ELSE IF Len(b) - pos < 4 THEN "short_header"
    ELSE IF Len(b) - pos - 4 < U16At(b, pos + 2) THEN "share_length"
    ELSE FramingFrom(b, pos + 4 + U16At(b, pos + 2), processed + 4 + U16At(b, pos + 2), declared)

\* "ok", or the first defect a reader of the extension bytes b meets:
\* "shares_length" (client_shares_length exceeds the bytes left),
\* "share_length" (a key_exchange_length exceeds the bytes left),
\* "short_header" (a length or group field is itself cut short)
Framing(b) ==
    IF Len(b) < 2 THEN "short_header"
    ELSE IF Len(b) - 2 < U16At(b, 0) THEN "shares_length"
    ELSE FramingFrom(b, 2, 0, U16At(b, 0))

\* the extension bytes of the call
Ext == ExtensionBytes(inp.shares, inp.framing)

\* no share could populate slot i: every share for its group has the wrong size
OnlyWrongSizeFor(i) ==
    \A k \in 1..Len(inp.shares) :
        inp.shares[k].group = s2n_ecc_supported_curves[i].iana_id
            => inp.shares[k].kind \in {"wrong_size", "empty"}

\* C2 as stated: shares for unknown groups or of the wrong size leave the slot
\* unset and the call succeeds; the call fails if and only if a declared
\* length exceeds the bytes left in the extension.
C2_FailsIffDeclaredTooLong ==
    pc = "recv_done"
        => /\ (ret.rc # 0) <=> (Framing(Ext) \in {"shares_length", "share_length"})
           /\ \A i \in Curves : (ret.rc = 0 /\ OnlyWrongSizeFor(i)) => SlotUnset(i)

\* C2 amended: shares for unknown groups or of the wrong size leave the slot
\* unset and do not fail the call; the call fails if and only if a declared
\* length exceeds the bytes left in the extension or fewer than two bytes are
\* left where client_shares_length, a named_group or a key_exchange_length is
\* to be read.
C2_FailsIffTruncated ==
    pc = "recv_done"
        => /\ ret.rc \in {0, -1}
           /\ (ret.rc # 0) <=> (Framing(Ext) # "ok")
           /\ \A i \in Curves : OnlyWrongSizeFor(i) => SlotUnset(i)

C2_Witness ==
    /\ pc = "recv_done"
    /\ Len(inp.shares) = 2
    /\ inp.shares[1] = [group |-> UnsupportedGroup, kind |-> "wrong_size", d |-> 1]
    /\ inp.shares[2] = [group |-> TLS_EC_CURVE_SECP_384_R1, kind |-> "wrong_size", d |-> 1]
    /\ inp.framing = [cut |-> 0, declared |-> "exact"]
    /\ ret.rc = 0
    /\ wire.rd = Len(wire.data)
    /\ \A i \in Curves : SlotUnset(i)

\* the share at the read cursor declares more key_exchange bytes than are left
ShareTooLong ==
    /\ loc.bytes_processed < loc.key_shares_size
    /\ s2n_stuffer_data_available(wire) >= 4
    /\ s2n_stuffer_data_available(wire) - 4 < U16At(wire.data, wire.rd + 2)

\* client_shares_length at the read cursor declares more bytes than are left
SharesTooLong ==
    /\ s2n_stuffer_data_available(wire) >= 2
    /\ s2n_stuffer_data_available(wire) - 2 < U16At(wire.data, wire.rd)

FailsBadMessageHere ==
    /\ pc' = "recv_done"
    /\ ret'.rc = -1
    /\ ret'.err = S2N_ERR_BAD_MESSAGE
    /\ conns' = conns
    /\ heap' = heap

\* C3: when client_shares_length or a share's key_exchange_length exceeds the
\* bytes left, the step that reads it returns BadMessage and changes no slot
\* and no key; nothing runs after the return; a failure on
\* client_shares_length leaves every slot as it was before the call.
C3_TooLongFailsAtOnce ==
    [][ /\ (pc = "recv_call" /\ SharesTooLong) => (FailsBadMessageHere /\ conns'.B = UnsetSlots)
        /\ (pc = "recv_loop" /\ ShareTooLong) => FailsBadMessageHere
        /\ pc # "recv_done" ]_vars

C3_Witness ==
    /\ pc = "recv_done"
    /\ Len(inp.shares) = 2
    /\ inp.shares[1] = [group |-> TLS_EC_CURVE_SECP_256_R1, kind |-> "valid", d |-> 1]
    /\ inp.shares[2] = [group |-> TLS_EC_CURVE_SECP_384_R1, kind |-> "valid", d |-> 1]
    /\ inp.framing = [cut |-> 5, declared |-> "exact"]
    /\ ret.rc = -1 /\ ret.err = S2N_ERR_BAD_MESSAGE
    /\ SlotHolds(1, PubOf(1, 1))
    /\ SlotUnset(2)

\* C14: whenever the call returns success, the bytes it consumed after the
\* 2-byte client_shares_length field are exactly client_shares_length; it
\* reads no share byte beyond the declared length.
C14_ConsumesDeclaredLength ==
    (pc = "recv_done" /\ ret.rc = 0)
        => wire.rd - S2N_SIZE_OF_CLIENT_SHARES_SIZE = loc.key_shares_size

\* the header of a whole share is at the read cursor and the loop will read it
ShareAtCursor ==
    /\ pc = "recv_loop"
    /\ loc.bytes_processed < loc.key_shares_size
    /\ s2n_stuffer_data_available(wire) >= 4
    /\ s2n_stuffer_data_available(wire) - 4 >= U16At(wire.data, wire.rd + 2)

CursorGroup == U16At(wire.data, wire.rd)

CursorShareSize == U16At(wire.data, wire.rd + 2)

CursorKeyExchange == Slice(wire.data, wire.rd + 5, wire.rd + 4 + CursorShareSize)

\* the share at the cursor is for registry curve i and has its share size,
\* but its point does not decode
BadPointShareAt(i) ==
    /\ ShareAtCursor
    /\ CursorGroup = s2n_ecc_supported_curves[i].iana_id
    /\ CursorShareSize = s2n_ecc_supported_curves[i].share_size
    /\ EC_POINT_oct2point(i, CursorKeyExchange) = 0

\* slot i has its curve set exactly when it holds a live key with a public point
SlotConsistent(i) ==
    (conns.B[i].negotiated_curve # 0)
        <=> /\ conns.B[i].ec_key # 0
            /\ heap[conns.B[i].ec_key].live
            /\ heap[conns.B[i].ec_key].pub # 0

\* C15: a share for a registry curve with the right size whose point does not
\* decode leaves its slot unset (no curve, no key, the key made for it freed)
\* and the loop goes on with the next share; at every return of the call
\* every slot has its curve set if and only if it holds a key with a public
\* point.
C15_BadPointRestoresSlot ==
    /\ [][ \A i \in Curves :
              (BadPointShareAt(i) /\ SlotUnset(i))
                  => /\ conns'.B[i] = UnsetParams
                     /\ \A j \in Curves \ {i} : conns'.B[j] = conns.B[j]
                     /\ Len(heap') = Len(heap) + 1
                     /\ ~heap'[Len(heap')].live
                     /\ pc' = "recv_loop"
                     /\ wire'.rd = wire.rd + 4 + CursorShareSize ]_vars
    /\ [](pc = "recv_done" => \A i \in Curves : SlotConsistent(i))

C15_Witness ==
    /\ pc = "recv_done"
    /\ Len(inp.shares) = 2
    /\ inp.shares[1] = [group |-> TLS_EC_CURVE_SECP_256_R1, kind |-> "bad_point", d |-> 1]
    /\ inp.shares[2] = [group |-> TLS_EC_CURVE_SECP_256_R1, kind |-> "valid", d |-> 2]
    /\ inp.framing = [cut |-> 0, declared |-> "exact"]
    /\ ret.rc = 0
    /\ ~heap[1].live
    /\ conns.B[1].ec_key = 2
    /\ SlotHolds(1, PubOf(1, 2))

\* the loop skips the share at the cursor: its group is not in the registry,
\* its slot already has a curve, or its size is not the curve's share size
SkippedShareAtCursor ==
    /\ ShareAtCursor
    /\ LET i == SupportedCurveIndex(CursorGroup)
       IN  IF i = 0 THEN TRUE
           ELSE \/ conns.B[i].negotiated_curve # 0
                \/ CursorShareSize # s2n_ecc_supported_curves[i].share_size

\* C16: the call changes nothing but the client_ecc_params slots and the keys
\* it allocates for them; a step that processes a share for registry curve i
\* leaves the curve and the key of every other slot as they were; reading
\* client_shares_length, a skipped share (unknown group, duplicate, wrong
\* size) and a failing step leave every slot and every key unchanged.
C16_RecvFrame ==
    [][ /\ ext_size' = ext_size
        /\ params' = params
        /\ DOMAIN conns' = DOMAIN conns
        /\ \A h \in 1..Len(heap) : Len(heap') >= h /\ heap'[h] = heap[h]
        /\ ShareAtCursor
              => \A j \in Curves \ {SupportedCurveIndex(CursorGroup)} : conns'.B[j] = conns.B[j]
        /\ (pc = "recv_call" \/ SkippedShareAtCursor \/ (pc = "recv_loop" /\ ~ShareAtCursor))
              => (conns' = conns /\ heap' = heap) ]_vars

C16_Witness ==
    /\ pc = "recv_done"
    /\ Len(inp.shares) = 2
    /\ inp.shares[1] = [group |-> TLS_EC_CURVE_SECP_384_R1, kind |-> "valid", d |-> 2]
    /\ inp.shares[2] = [group |-> TLS_EC_CURVE_SECP_256_R1, kind |-> "wrong_size", d |-> 1]
    /\ inp.framing = [cut |-> 0, declared |-> "exact"]
    /\ ret.rc = 0
    /\ SlotHolds(2, PubOf(2, 2))
    /\ SlotUnset(1)
    /\ Len(heap) = 1

\* C19: the call returns on every input; an iteration of the loop either
\* returns a failure or adds at least 4 to bytes_processed, also for a share
\* with key_exchange_length 0, so the loop body runs at most
\* ceil(client_shares_length / 4) times; bytes_processed never exceeds the
\* bytes read from the extension and so never overflows an int.
C19_RecvTerminates ==
    /\ <>(pc = "recv_done")
    /\ [][ (pc = "recv_loop" /\ loc.bytes_processed < loc.key_shares_size)
              => \/ pc' = "recv_done" /\ ret'.rc # 0 /\ loc'.bytes_processed = loc.bytes_processed
                 \/ pc' = "recv_loop" /\ loc'.bytes_processed >= loc.bytes_processed + 4 ]_vars
    /\ [](pc # "recv_call"
            => /\ 4 * loc.iterations <= loc.key_shares_size + 3
               /\ loc.bytes_processed <= Max0(wire.rd - S2N_SIZE_OF_CLIENT_SHARES_SIZE)
               /\ loc.bytes_processed \div 2 < 2^30)

C19_Witness ==
    /\ pc = "recv_done"
    /\ Len(inp.shares) = 2
    /\ inp.shares[1] = [group |-> TLS_EC_CURVE_SECP_256_R1, kind |-> "empty", d |-> 1]
    /\ inp.shares[2] = [group |-> UnsupportedGroup, kind |-> "empty", d |-> 1]
    /\ inp.framing = [cut |-> 0, declared |-> "exact"]
    /\ ret.rc = 0
    /\ loc.key_shares_size = 8
    /\ loc.bytes_processed = 8
    /\ loc.iterations = 2

(***************************************************************************)
(* SpecLegacy: the legacy ECDHE exchange.  The server generates a key for  *)
(* the negotiated curve and writes its params; the message may be damaged  *)
(* in transit; the client reads and parses it into its server_ecc_params,  *)
(* computes the shared secret and writes its point to Yc; the server       *)
(* computes the secret from Yc.  A step runs only after the step before it *)
(* succeeded.                                                              *)
(*   params  [server, client]: the server_ecc_params of the two sides      *)
(*   wire    the stuffer holding the server's message                      *)
(*   loc     written, data_to_verify ([off, size]), raw ([curve_blob,      *)
(*           point_blob]), Yc (stuffer), client_key (handle), the two      *)
(*           shared_key blobs and whether the message was damaged          *)
(*   ret     [rc, err] of the last call of every step                      *)
(*   inp     the negotiated curve, the client's params before the          *)
(*           exchange, the faults libcrypto reports in the client's and    *)
(*           the server's secret computation                               *)
(***************************************************************************)
\* bytes of the handshake message that precede the params in the stuffer
HeaderBytes == << 12, 0 >>

\* a key holding only a public point, left by an earlier parse
HeldKey == [nid |-> 2, priv |-> 0, pub |-> PubOf(2, 1), live |-> TRUE]

HeldParams == [negotiated_curve |-> 2, ec_key |-> 1]

NoBlob == [off |-> 0, size |-> 0]

NoRet == [rc |-> 0, err |-> S2N_ERR_OK]

InitLegacy ==
    /\ pc = "keygen"
    /\ inp \in [curve : Curves, client0 : {UnsetParams, HeldParams},
                client_faults : {{}}, server_faults : {{}}]
    /\ params = [server |-> [negotiated_curve |-> inp.curve, ec_key |-> 0],
                 client |-> inp.client0]
    /\ heap = IF inp.client0 = HeldParams THEN << HeldKey >> ELSE << >>
    /\ wire = NoStuffer
    /\ loc = [written |-> NoBlob, data_to_verify |-> NoBlob,
              raw |-> [curve_blob |-> << >>, point_blob |-> << >>],
              Yc |-> NoStuffer, client_key |-> 0, client_secret |-> << >>,
              server_secret |-> << >>, damaged |-> FALSE]
    /\ ret = [gen |-> NoRet, write |-> NoRet, read |-> NoRet, parse |-> NoRet,
              client |-> NoRet, server |-> NoRet]
    /\ ext_size = 0
    /\ conns = [B |-> UnsetSlots]

\* the server calls s2n_ecc_generate_ephemeral_key
ServerGenerate ==
    /\ pc = "keygen"
    /\ \E d \in 1..MaxScalar, faults \in {{}, {"keygen"}} :
          LET r == s2n_ecc_generate_ephemeral_key(params.server, heap, d, faults)
          IN  /\ params' = [params EXCEPT !.server = r.p]
              /\ heap' = r.heap
              /\ ret' = [ret EXCEPT !.gen = [rc |-> r.rc, err |-> r.err]]
    /\ pc' = "generated"
    /\ UNCHANGED <<ext_size, conns, wire, loc, inp>>

\* the server calls s2n_ecc_write_ecc_params on a stuffer that holds the
\* message header and has room for room more bytes
ServerWrite ==
    /\ pc = "generated" /\ ret.gen.rc = 0
    /\ \E header \in {<< >>, HeaderBytes}, room \in {3, 4 + 97} :
          LET out == [data |-> header, rd |-> Len(header), cap |-> Len(header) + room]
              r == s2n_ecc_write_ecc_params(params.server, heap, out, loc.written)
          IN  /\ wire' = r.out
              /\ loc' = [loc EXCEPT !.written = r.written]
              /\ ret' = [ret EXCEPT !.write = [rc |-> r.rc, err |-> r.err]]
    /\ pc' = "sent"
    /\ UNCHANGED <<ext_size, conns, params, heap, inp>>

\* damage in transit: [off, val] sets the byte at offset off of the message
Damages ==
    {[off |-> 0, val |-> 1], [off |-> 2, val |-> 23], [off |-> 2, val |-> 24],
     [off |-> 2, val |-> 25], [off |-> 3, val |-> 64], [off |-> 3, val |-> 98],
     [off |-> 4, val |-> 5], [off |-> 4, val |-> 6], [off |-> 4, val |-> 7]}

Damage ==
    /\ pc = "sent" /\ ret.write.rc > 0 /\ ~loc.damaged
    /\ \E dm \in Damages :
          /\ wire.data[loc.written.off + dm.off + 1] # dm.val
          /\ wire' = [wire EXCEPT !.data[loc.written.off + dm.off + 1] = dm.val]
    /\ loc' = [loc EXCEPT !.damaged = TRUE]
    /\ UNCHANGED <<pc, ext_size, conns, params, heap, ret, inp>>

\* the client calls s2n_ecc_read_ecc_params
ClientRead ==
    /\ pc = "sent" /\ ret.write.rc > 0
    /\ LET r == s2n_ecc_read_ecc_params(wire, loc.data_to_verify, loc.raw)
       IN  /\ wire' = r.in
           /\ loc' = [loc EXCEPT !.data_to_verify = r.data_to_verify, !.raw = r.raw]
           /\ ret' = [ret EXCEPT !.read = [rc |-> r.rc, err |-> r.err]]
    /\ pc' = "read"
    /\ UNCHANGED <<ext_size, conns, params, heap, inp>>

\* the client calls s2n_ecc_parse_ecc_params; the exchange is followed with
\* libcrypto allocating and installing the key (SpecParse has its failures)
ClientParse ==
    /\ pc = "read" /\ ret.read.rc = 0
    /\ LET r == s2n_ecc_parse_ecc_params(params.client, heap, loc.raw, {})
       IN  /\ params' = [params EXCEPT !.client = r.p]
           /\ heap' = r.heap
           /\ ret' = [ret EXCEPT !.parse = [rc |-> r.rc, err |-> r.err]]
    /\ pc' = "parsed"
    /\ UNCHANGED <<ext_size, conns, wire, loc, inp>>

\* the client calls s2n_ecc_compute_shared_secret_as_client with a Yc_out
\* that has room for room bytes
AsClient ==
    /\ pc = "parsed" /\ ret.parse.rc = 0
    /\ \E d \in 1..MaxScalar, room \in {0, 1, 1 + 97},
          faults \in {{}, {"keygen"}, {"ecdh"}, {"degree"}} :
          LET r == s2n_ecc_compute_shared_secret_as_client(
                       params.client, heap, s2n_stuffer_init(room), loc.client_secret, d, faults)
          IN  /\ heap' = r.heap
              /\ loc' = [loc EXCEPT !.Yc = r.Yc_out, !.client_key = r.client_key,
                                    !.client_secret = r.shared_key]
              /\ ret' = [ret EXCEPT !.client = [rc |-> r.rc, err |-> r.err]]
              /\ inp' = [inp EXCEPT !.client_faults = faults]
    /\ pc' = "client_done"
    /\ UNCHANGED <<ext_size, conns, params, wire>>

\* the server calls s2n_ecc_compute_shared_secret_as_server on the client's Yc
AsServer ==
    /\ pc = "client_done" /\ ret.client.rc = 0
    /\ \E faults \in {{}, {"ecdh"}, {"degree"}} :
          LET r == s2n_ecc_compute_shared_secret_as_server(
                       params.server, heap, loc.Yc, loc.server_secret, faults)
          IN  /\ loc' = [loc EXCEPT !.Yc = r.Yc_in, !.server_secret = r.shared_key]
              /\ ret' = [ret EXCEPT !.server = [rc |-> r.rc, err |-> r.err]]
              /\ inp' = [inp EXCEPT !.server_faults = faults]
    /\ pc' = "server_done"
    /\ UNCHANGED <<ext_size, conns, params, heap, wire>>

NextLegacy ==
    ServerGenerate \/ ServerWrite \/ Damage \/ ClientRead \/ ClientParse \/ AsClient \/ AsServer

SpecLegacy == InitLegacy /\ [][NextLegacy]_vars

\* C7: when the client reads and parses the bytes the server wrote, both
\* calls succeed, the client holds the server's curve and public point, and
\* data_to_verify starts at the first written byte and is 4 + point_length
\* long, the count that write returned.
C7_ParamsRoundTrip ==
    /\ (pc = "read" /\ ~loc.damaged)
          => /\ ret.read.rc = 0
             /\ loc.data_to_verify.off = loc.written.off
             /\ loc.data_to_verify.size = 4 + Len(loc.raw.point_blob)
             /\ loc.data_to_verify.size = ret.write.rc
             /\ loc.data_to_verify.size = loc.written.size
             /\ loc.data_to_verify.size = Len(wire.data) - loc.written.off
    /\ (pc = "parsed" /\ ~loc.damaged)
          => /\ ret.parse.rc = 0
             /\ params.client.negotiated_curve = params.server.negotiated_curve
             /\ params.client.ec_key # 0
             /\ KeyGroup(heap, params.client.ec_key) = KeyGroup(heap, params.server.ec_key)
             /\ KeyPub(heap, params.client.ec_key) = KeyPub(heap, params.server.ec_key)
             /\ KeyPub(heap, params.client.ec_key) # 0

C7_Witness ==
    /\ pc = "parsed" /\ ~loc.damaged
    /\ inp.curve = 1 /\ inp.client0 = HeldParams
    /\ loc.written.off = Len(HeaderBytes)
    /\ loc.data_to_verify = [off |-> Len(HeaderBytes), size |-> 4 + 65]
    /\ ret.parse.rc = 0
    /\ params.client.negotiated_curve = 1
    /\ KeyPub(heap, params.client.ec_key) = PubOf(1, 2)

(***************************************************************************)
(* SpecParse: one call of s2n_ecc_parse_ecc_params on a pair and the raw   *)
(* curve id and point bytes that s2n_ecc_read_ecc_params delivered, with   *)
(* the failures libcrypto may report while the key is built.               *)
(*   inp     client0 (the pair before the call), curve_id, point (the raw  *)
(*           bytes) and faults (a subset of ParseFaults)                   *)
(*   params  [client]: the pair                                            *)
(*   loc     [raw]: curve_blob and point_blob                              *)
(*   ret     [parse]: rc and err of the call                               *)
(***************************************************************************)
\* the curve ids a message may carry: the registry's, an unknown one and 0
ParseCurveIds ==
    {TLS_EC_CURVE_SECP_256_R1, TLS_EC_CURVE_SECP_384_R1, UnsupportedGroup, 0}

\* the three octet forms of the public point of scalar d on curve c
PointForms(c, d) ==
    {PointOctets(form, CurveX(c, PointElement(PubOf(c, d))),
                 CurveY(c, PointElement(PubOf(c, d))), FieldBytes(c)) :
        form \in {"uncompressed", "hybrid", "compressed"}}

\* the point bytes a message may carry: every form of a public point of either
\* curve, the point at infinity, no bytes, an unknown tag
ParsePoints ==
    UNION {PointForms(c, d) : c \in Curves, d \in 1..MaxScalar}
    \cup {<< 0 >>, << >>, << 5 >> \o Slice(EC_POINT_point2oct(1, PubOf(1, 1)), 2, 65)}

InitParse ==
    /\ pc = "parse_call"
    /\ inp \in [client0 : {UnsetParams, HeldParams}, curve_id : ParseCurveIds,
                point : ParsePoints, faults : SUBSET ParseFaults]
    /\ params = [client |-> inp.client0]
    /\ heap = IF inp.client0 = HeldParams THEN << HeldKey >> ELSE << >>
    /\ loc = [raw |-> [curve_blob |-> U16Bytes(inp.curve_id), point_blob |-> inp.point]]
    /\ ret = [parse |-> NoRet]
    /\ ext_size = 0
    /\ conns = [B |-> UnsetSlots]
    /\ wire = NoStuffer

ParseParams ==
    /\ pc = "parse_call"
    /\ LET r == s2n_ecc_parse_ecc_params(params.client, heap, loc.raw, inp.faults)
       IN  /\ params' = [params EXCEPT !.client = r.p]
           /\ heap' = r.heap
           /\ ret' = [ret EXCEPT !.parse = [rc |-> r.rc, err |-> r.err]]
    /\ pc' = "parse_done"
    /\ UNCHANGED <<ext_size, conns, wire, loc, inp>>

NextParse == ParseParams

SpecParse == InitParse /\ [][NextParse]_vars

\* the registry curve the raw curve id names (0: none) and the point the raw
\* point bytes decode to on it (0: none)
RawCurve == SupportedCurveIndex(U16At(loc.raw.curve_blob, 0))

RawPoint == IF RawCurve = 0 THEN 0 ELSE EC_POINT_oct2point(RawCurve, loc.raw.point_blob)

\* the call fails with err; the pair holds the resolved curve and key handle h
\* and the heap grew by the records in new
ParseFailed(err, h, new) ==
    /\ ret'.parse = [rc |-> -1, err |-> err]
    /\ params'.client = [negotiated_curve |-> RawCurve, ec_key |-> h]
    /\ heap' = heap \o new

\* the call succeeds; the pair holds the resolved curve and a new key with the
\* decoded public point and no private scalar
ParseSucceeded ==
    /\ ret'.parse = [rc |-> 0, err |-> S2N_ERR_OK]
    /\ params'.client = [negotiated_curve |-> RawCurve, ec_key |-> Len(heap) + 1]
    /\ heap' = Append(heap, [nid |-> RawCurve, priv |-> 0, pub |-> RawPoint, live |-> TRUE])

ClientHoldsServerPoint ==
    /\ params.client.negotiated_curve = params.server.negotiated_curve
    /\ params.client.ec_key # 0
    /\ KeyPub(heap, params.client.ec_key) = KeyPub(heap, params.server.ec_key)

SecretSize(c) == (EC_GROUP_get_degree(c) + 7) \div 8

\* C9: when libcrypto reports no fault and Yc has room for the client's point,
\* the client's call against the server's public point succeeds, the server's
\* call on the bytes the client wrote succeeds, and both produce the same
\* secret, ceil(field_degree / 8) bytes long.
C9_SecretsAgree ==
    /\ (pc = "client_done" /\ ClientHoldsServerPoint /\ inp.client_faults = {}
           /\ loc.Yc.cap >= 1 + s2n_ecc_supported_curves[inp.curve].share_size)
          => /\ ret.client.rc = 0
             /\ Len(loc.client_secret) = SecretSize(inp.curve)
    /\ (pc = "server_done" /\ ClientHoldsServerPoint /\ inp.server_faults = {})
          => /\ ret.server.rc = 0
             /\ loc.server_secret = loc.client_secret
             /\ Len(loc.server_secret) = SecretSize(inp.curve)

C9_Witness ==
    /\ pc = "server_done"
    /\ inp.curve = 2
    /\ ClientHoldsServerPoint
    /\ ret.client.rc = 0 /\ ret.server.rc = 0
    /\ KeyPriv(heap, params.server.ec_key) = 1
    /\ KeyPriv(heap, loc.client_key) = 2
    /\ Len(loc.client_secret) = 48
    /\ loc.server_secret = loc.client_secret

\* C10: when s2n_ecc_compute_shared_secret_as_client returns, with success or
\* with any failure, the key pair it generated has been freed.
C10_ClientKeyReleased ==
    pc = "client_done" => (loc.client_key = 0 \/ ~heap[loc.client_key].live)

\* libcrypto reports a non-positive field degree or a wrong-length ECDH result
SecretFaults == {"degree", "ecdh"}

SharedSecretFailure == [rc |-> -1, err |-> S2N_ERR_ECDHE_SHARED_SECRET]

\* C13: when the field degree is non-positive or the raw ECDH computation
\* returns a length other than ceil(field_degree / 8), the call of
\* s2n_ecc_compute_shared_secret made by as_client and by as_server fails with
\* SharedSecretFailure and the caller's shared_key blob holds no bytes: the
\* buffer allocated for the result was freed.
C13_FailedSecretFreed ==
    [][ /\ (pc = "parsed" /\ pc' = "client_done" /\ inp'.client_faults \cap SecretFaults # {})
              => /\ ret'.client = SharedSecretFailure
                 /\ loc'.client_secret = << >>
        /\ (pc = "client_done" /\ pc' = "server_done" /\ inp'.server_faults \cap SecretFaults # {})
              => /\ ret'.server = SharedSecretFailure
                 /\ loc'.server_secret = << >> ]_vars

C13_Witness ==
    /\ pc = "server_done"
    /\ inp.server_faults = {"ecdh"}
    /\ ret.client.rc = 0
    /\ Len(loc.client_secret) = SecretSize(inp.curve)
    /\ ret.server = SharedSecretFailure
    /\ loc.server_secret = << >>

\* C20: whenever s2n_ecc_compute_shared_secret_as_client returns a failure,
\* the shared_key blob holds no secret.
C20_NoSecretOnFailure ==
    (pc = "client_done" /\ ret.client.rc # 0) => loc.client_secret = << >>

(***************************************************************************)
(* SpecShare: the key_share extension from a client A to a server B.       *)
(* s2n_client_key_share_init runs any number of times up to MaxInits, A    *)
(* sends the extension, B receives its body from client_shares_length on.  *)
(*   loc  inits: the calls of s2n_client_key_share_init so far             *)
(*   inp  ds, fls: the scalars and libcrypto faults of A's key generation, *)
(*        room: the capacity of the stuffer A writes to                    *)
(***************************************************************************)
\* most calls of s2n_client_key_share_init in a process
MaxInits == 2

InitShare ==
    /\ pc = "start"
    /\ ext_size = 0
    /\ conns = [A |-> UnsetSlots, B |-> UnsetSlots]
    /\ heap = << >>
    /\ wire = NoStuffer
    /\ loc = [inits |-> 0]
    /\ ret = [send |-> NoRet, recv |-> NoRet]
    /\ inp = NoValue
    /\ params = NoValue

KeyShareInit ==
    /\ pc = "start"
    /\ loc.inits < MaxInits
    /\ ext_size' = s2n_client_key_share_init
    /\ loc' = [loc EXCEPT !.inits = loc.inits + 1]
    /\ UNCHANGED <<pc, conns, params, heap, wire, ret, inp>>

KeyShareSend ==
    /\ pc = "start"
    /\ \E ds \in [Curves -> 1..MaxScalar], room \in {5, 6 + 69, 100, 176},
          fls \in {[i \in Curves |-> {}]} \cup {[i \in Curves |-> IF i = k THEN {"keygen"} ELSE {}] : k \in Curves} :
          LET r == s2n_extensions_client_key_share_send(conns.A, heap, s2n_stuffer_init(room),
                                                        ext_size, ds, fls)
          IN  /\ conns' = [conns EXCEPT !.A = r.conn]
              /\ heap' = r.heap
              /\ wire' = r.out
              /\ ret' = [ret EXCEPT !.send = [rc |-> r.rc, err |-> r.err]]
              /\ inp' = [ds |-> ds, room |-> room, fls |-> fls]
    /\ pc' = "sent"
    /\ UNCHANGED <<ext_size, params, loc>>

\* the extension data B's handler is given: the bytes after extension_type
\* and extension_data_length
ExtensionData(bytes) ==
    Slice(bytes, S2N_SIZE_OF_EXTENSION_TYPE + S2N_SIZE_OF_EXTENSION_DATA_SIZE + 1, Len(bytes))

KeyShareRecv ==
    /\ pc = "sent" /\ ret.send.rc = 0
    /\ LET st == s2n_extensions_client_key_share_recv(conns.B, heap,
                                                     StufferOf(ExtensionData(wire.data)))
       IN  /\ conns' = [conns EXCEPT !.B = st.conn]
           /\ heap' = st.heap
           /\ ret' = [ret EXCEPT !.recv = [rc |-> st.rc, err |-> st.err]]
    /\ pc' = "received"
    /\ UNCHANGED <<ext_size, params, wire, loc, inp>>

NextShare == KeyShareInit \/ KeyShareSend \/ KeyShareRecv

SpecShare == InitShare /\ [][NextShare]_vars

\* the share A sent for curve i: group, length and the point of A's key
SentShare(i) ==
    U16Bytes(s2n_ecc_supported_curves[i].iana_id)
        \o U16Bytes(s2n_ecc_supported_curves[i].share_size)
        \o EC_POINT_point2oct(i, KeyPub(heap, conns.A[i].ec_key))

\* C4: after s2n_client_key_share_init, a successful send writes
\* client_shares_length = 170 and one share per registry curve in registry
\* order, and leaves every slot of A with its curve and a generated key;
\* receive on that body succeeds and leaves every slot of B with its curve and
\* the public point A sent, 65 and 97 bytes long.
C4_KeyShareRoundTrip ==
    /\ (pc \in {"sent", "received"} /\ loc.inits >= 1 /\ ret.send.rc = 0)
          => /\ wire.data = U16Bytes(TLS_EXTENSION_KEY_SHARE) \o U16Bytes(172) \o U16Bytes(170)
                                \o SentShare(1) \o SentShare(2)
             /\ U16At(wire.data, 4) = Len(wire.data) - 6
             /\ \A i \in Curves :
                   /\ conns.A[i].negotiated_curve = i
                   /\ conns.A[i].ec_key # 0
                   /\ heap[conns.A[i].ec_key]
                        = [nid |-> i, priv |-> inp.ds[i], pub |-> PubOf(i, inp.ds[i]), live |-> TRUE]
    /\ (pc = "received" /\ loc.inits >= 1)
          => /\ ret.recv.rc = 0
             /\ \A i \in Curves :
                   /\ conns.B[i].negotiated_curve = i
                   /\ conns.B[i].ec_key # 0
                   /\ conns.B[i].ec_key # conns.A[i].ec_key
                   /\ heap[conns.B[i].ec_key]
                        = [nid |-> i, priv |-> 0, pub |-> KeyPub(heap, conns.A[i].ec_key), live |-> TRUE]
                   /\ Len(EC_POINT_point2oct(i, KeyPub(heap, conns.B[i].ec_key)))
                        = IF i = 1 THEN 65 ELSE 97

C4_Witness ==
    /\ pc = "received"
    /\ loc.inits = 1
    /\ ret.send.rc = 0 /\ ret.recv.rc = 0
    /\ Len(wire.data) = 176
    /\ inp.ds[1] = 2 /\ inp.ds[2] = 1
    /\ KeyPub(heap, conns.B[1].ec_key) = PubOf(1, 2)
    /\ KeyPub(heap, conns.B[2].ec_key) = PubOf(2, 1)

RECURSIVE RegistryShareBytes(_)
\* the bytes of the shares of registry curves i.. : 4 + share_size each
RegistryShareBytes(i) ==
    IF i > S2N_ECC_SUPPORTED_CURVES_COUNT THEN 0
    ELSE 4 + s2n_ecc_supported_curves[i].share_size + RegistryShareBytes(i + 1)

\* C12: after one or more calls of s2n_client_key_share_init the extension
\* size is 6 + the sum over the registry of (4 + share_size) = 176, however
\* often init ran, and a successful send writes exactly that many bytes, with
\* extension_data_length = size - 4 and client_shares_length = size - 6.
C12_InitIdempotent ==
    loc.inits >= 1
        => /\ s2n_extensions_client_key_share_size(ext_size) = 6 + RegistryShareBytes(1)
           /\ s2n_extensions_client_key_share_size(ext_size) = 176
           /\ (pc \in {"sent", "received"} /\ ret.send.rc = 0)
                 => /\ Len(wire.data) = s2n_extensions_client_key_share_size(ext_size)
                    /\ U16At(wire.data, 0) = TLS_EXTENSION_KEY_SHARE
                    /\ U16At(wire.data, 2) = s2n_extensions_client_key_share_size(ext_size) - 4
                    /\ U16At(wire.data, 4) = s2n_extensions_client_key_share_size(ext_size) - 6

C12_Witness ==
    /\ pc = "sent"
    /\ loc.inits = 2
    /\ ret.send.rc = 0
    /\ ext_size = 176
    /\ Len(wire.data) = 176
    /\ U16At(wire.data, 2) = 172
    /\ U16At(wire.data, 4) = 170

\* C21: whatever the order of s2n_client_key_share_init and
\* s2n_extensions_client_key_share_send, send before any init included, a
\* successful send writes an extension_data_length equal to the number of
\* bytes it writes after that field and a client_shares_length equal to the
\* number of bytes it writes after that field.
C21_LengthFieldsMatchWritten ==
    (pc \in {"sent", "received"} /\ ret.send.rc = 0)
        => /\ U16At(wire.data, S2N_SIZE_OF_EXTENSION_TYPE)
                = Len(wire.data) - S2N_SIZE_OF_EXTENSION_TYPE - S2N_SIZE_OF_EXTENSION_DATA_SIZE
           /\ U16At(wire.data, S2N_SIZE_OF_EXTENSION_TYPE + S2N_SIZE_OF_EXTENSION_DATA_SIZE)
                = Len(wire.data) - S2N_SIZE_OF_EXTENSION_TYPE - S2N_SIZE_OF_EXTENSION_DATA_SIZE
                      - S2N_SIZE_OF_CLIENT_SHARES_SIZE

(***************************************************************************)
(* SpecWrite: the server side of the legacy exchange up to the message.    *)
(* The caller assigns server_ecc_params.negotiated_curve (no function of   *)
(* the file does that for the server), generates the ephemeral key and     *)
(* writes the params; it may assign the curve again after the key was      *)
(* generated.                                                              *)
(*   loc  written ([off, size]) and selects, the assignments so far        *)
(*   inp  the header bytes already in the stuffer and the room left        *)
(***************************************************************************)
\* most assignments of negotiated_curve by the caller
MaxSelects == 2

InitWrite ==
    /\ pc = "negotiate"
    /\ params = [server |-> UnsetParams]
    /\ heap = << >>
    /\ wire = NoStuffer
    /\ loc = [written |-> NoBlob, selects |-> 0]
    /\ ret = [gen |-> NoRet, write |-> NoRet]
    /\ inp = NoValue
    /\ ext_size = 0
    /\ conns = [B |-> UnsetSlots]

\* the caller assigns server_ecc_params.negotiated_curve
WriteSelectCurve ==
    /\ pc \in {"negotiate", "generated"}
    /\ loc.selects < MaxSelects
    /\ \E c \in Curves : params' = [params EXCEPT !.server.negotiated_curve = c]
    /\ loc' = [loc EXCEPT !.selects = loc.selects + 1]
    /\ UNCHANGED <<pc, ext_size, conns, heap, wire, ret, inp>>

\* the server calls s2n_ecc_generate_ephemeral_key
WriteGenerate ==
    /\ pc = "negotiate"
    /\ \E d \in 1..MaxScalar, faults \in {{}, {"keygen"}} :
          LET r == s2n_ecc_generate_ephemeral_key(params.server, heap, d, faults)
          IN  /\ params' = [params EXCEPT !.server = r.p]
              /\ heap' = r.heap
              /\ ret' = [ret EXCEPT !.gen = [rc |-> r.rc, err |-> r.err]]
    /\ pc' = "generated"
    /\ UNCHANGED <<ext_size, conns, wire, loc, inp>>

\* the server calls s2n_ecc_write_ecc_params on a stuffer that holds the
\* message header and has room for room more bytes
WriteParams ==
    /\ pc = "generated"
    /\ \E header \in {<< >>, HeaderBytes}, room \in {3, 4 + 65, 4 + 97} :
          LET out == [data |-> header, rd |-> Len(header), cap |-> Len(header) + room]
              r == s2n_ecc_write_ecc_params(params.server, heap, out, loc.written)
          IN  /\ wire' = r.out
              /\ loc' = [loc EXCEPT !.written = r.written]
              /\ ret' = [ret EXCEPT !.write = [rc |-> r.rc, err |-> r.err]]
              /\ inp' = [header |-> header, room |-> room]
    /\ pc' = "written"
    /\ UNCHANGED <<ext_size, conns, params, heap>>

NextWrite == WriteSelectCurve \/ WriteGenerate \/ WriteParams

SpecWrite == InitWrite /\ [][NextWrite]_vars

\* the length of the encoding of the server key's public point, 0 without one
ServerPointLength ==
    IF params.server.ec_key = 0 \/ KeyPub(heap, params.server.ec_key) = 0 THEN 0
    ELSE Len(EC_POINT_point2oct(KeyGroup(heap, params.server.ec_key),
                                KeyPub(heap, params.server.ec_key)))

\* share_size of the negotiated curve, 0 without one
ServerShareSize ==
    IF params.server.negotiated_curve = 0 THEN 0
    ELSE s2n_ecc_supported_curves[params.server.negotiated_curve].share_size

\* C11: when s2n_ecc_write_ecc_params succeeds, the point_length byte equals
\* the number of point bytes written after it and the share_size of the
\* negotiated curve, and the returned count and written->size are both
\* share_size + 4, the number of bytes appended; when the encoded length of
\* the key's point differs from share_size the call fails.
C11_PointLengthConsistent ==
    pc = "written"
        => /\ ret.write.rc >= 0
                 => /\ wire.data[loc.written.off + 4] = ServerShareSize
                    /\ Len(wire.data) - (loc.written.off + 4) = ServerShareSize
                    /\ ret.write.rc = ServerShareSize + 4
                    /\ loc.written.size = ServerShareSize + 4
           /\ ServerPointLength # ServerShareSize => ret.write.rc < 0

(***************************************************************************)
(* SpecConn: one connection's client_ecc_params slots under any sequence   *)
(* of at most MaxCalls calls of the operations that write them, then the   *)
(* teardown that calls s2n_ecc_params_free on every slot.                  *)
(*   loc  calls: the calls so far; ops: the operations called so far       *)
(*   ret  [rc, err] of the last call                                       *)
(***************************************************************************)
\* most calls on the connection before its teardown
MaxCalls == 3

\* the shares an extension handed to the connection may carry
ConnShares ==
    [group : {s2n_ecc_supported_curves[i].iana_id : i \in Curves},
     kind : {"valid", "bad_point"}, d : {1}]

\* well-framed extensions of no share or one share
ConnExtensions ==
    {ExtensionBytes(<< >>, [cut |-> 0, declared |-> "exact"])}
        \cup {ExtensionBytes(<< sh >>, [cut |-> 0, declared |-> "exact"]) : sh \in ConnShares}

InitConn ==
    /\ pc = "open"
    /\ ext_size = s2n_client_key_share_init
    /\ conns = [B |-> UnsetSlots]
    /\ heap = << >>
    /\ wire = NoStuffer
    /\ loc = [calls |-> 0, ops |-> {}]
    /\ ret = NoRet
    /\ inp = NoValue
    /\ params = NoValue

\* pc and loc after a call of operation op
ConnCalled(op) ==
    /\ pc = "open"
    /\ loc.calls < MaxCalls
    /\ loc' = [calls |-> loc.calls + 1, ops |-> loc.ops \cup {op}]
    /\ UNCHANGED <<pc, ext_size, params, inp>>

ConnSend ==
    /\ ConnCalled("send")
    /\ \E room \in {6 + 4 + 65, 176},
          fls \in {[i \in Curves |-> {}], [i \in Curves |-> IF i = 2 THEN {"keygen"} ELSE {}]} :
          LET r == s2n_extensions_client_key_share_send(conns.B, heap, s2n_stuffer_init(room),
                                                        ext_size, [i \in Curves |-> 1], fls)
          IN  /\ conns' = [conns EXCEPT !.B = r.conn]
              /\ heap' = r.heap
              /\ wire' = r.out
              /\ ret' = [rc |-> r.rc, err |-> r.err]

ConnRecv ==
    /\ ConnCalled("recv")
    /\ \E ext \in ConnExtensions :
          LET st == s2n_extensions_client_key_share_recv(conns.B, heap, StufferOf(ext))
          IN  /\ conns' = [conns EXCEPT !.B = st.conn]
              /\ heap' = st.heap
              /\ wire' = st.ext
              /\ ret' = [rc |-> st.rc, err |-> st.err]

ConnGenerate ==
    /\ ConnCalled("generate")
    /\ \E i \in Curves, faults \in {{}, {"keygen"}} :
          LET r == s2n_ecc_generate_ephemeral_key(conns.B[i], heap, 1, faults)
          IN  /\ conns' = [conns EXCEPT !.B[i] = r.p]
              /\ heap' = r.heap
              /\ ret' = [rc |-> r.rc, err |-> r.err]
    /\ UNCHANGED wire

\* s2n_ecc_parse_ecc_params on slot i with the id of curve i and a point
ConnParse ==
    /\ ConnCalled("parse")
    /\ \E sh \in ConnShares, faults \in {{}, {"new_key"}, {"set_public_key"}} :
          LET i == SupportedCurveIndex(sh.group)
              r == s2n_ecc_parse_ecc_params(
                       conns.B[i], heap,
                       [curve_blob |-> U16Bytes(sh.group), point_blob |-> KeyExchange(sh)],
                       faults)
          IN  /\ conns' = [conns EXCEPT !.B[i] = r.p]
              /\ heap' = r.heap
              /\ ret' = [rc |-> r.rc, err |-> r.err]
    /\ UNCHANGED wire

ConnFree ==
    /\ ConnCalled("free")
    /\ \E i \in Curves :
          LET r == s2n_ecc_params_free(conns.B[i], heap)
          IN  /\ conns' = [conns EXCEPT !.B[i] = r.p]
              /\ heap' = r.heap
              /\ ret' = NoRet
    /\ UNCHANGED wire

RECURSIVE params_free_from(_, _, _)
\* s2n_ecc_params_free on the slots i.. of a connection: [conn, heap]
params_free_from(conn, hp, i) ==
    IF i > S2N_ECC_SUPPORTED_CURVES_COUNT THEN [conn |-> conn, heap |-> hp]
    ELSE LET r == s2n_ecc_params_free(conn[i], hp)
         IN  params_free_from([conn EXCEPT ![i] = r.p], r.heap, i + 1)

\* the teardown of the connection
ConnTeardown ==
    /\ pc = "open"
    /\ LET r == params_free_from(conns.B, heap, 1)
       IN  /\ conns' = [conns EXCEPT !.B = r.conn]
           /\ heap' = r.heap
    /\ pc' = "closed"
    /\ UNCHANGED <<ext_size, params, wire, ret, loc, inp>>

NextConn == ConnSend \/ ConnRecv \/ ConnGenerate \/ ConnParse \/ ConnFree \/ ConnTeardown

SpecConn == InitConn /\ [][NextConn]_vars

\* C17: after any sequence of send, recv, generate_ephemeral_key and parse
\* calls and the teardown that frees every slot, every key that was allocated
\* has been released.
C17_NoKeyLeaked ==
    (pc = "closed" /\ "free" \notin loc.ops) => \A h \in 1..Len(heap) : ~heap[h].live

\* C18: in every state reached by send, recv, parse and s2n_ecc_params_free
\* calls from unset slots, a slot whose negotiated_curve is set holds a live
\* key with a public point.
C18_CurveImpliesKey ==
    (pc = "open" /\ "generate" \notin loc.ops)
        => \A i \in Curves :
              conns.B[i].negotiated_curve # 0
                  => /\ conns.B[i].ec_key # 0
                     /\ heap[conns.B[i].ec_key].live
                     /\ heap[conns.B[i].ec_key].pub # 0

=============================================================================
